---- MODULE Spec2Model ----
(***************************************************************************)
(* A model of api-extractor's Collector (entity graph, unique names,       *)
(* release-tag metadata) and of ApiModelGenerator.buildApiPackage().       *)
(*                                                                         *)
(* The front end's output (export table, declaration tree, entity          *)
(* references, doc comments) is the input: it is drawn in Init and never   *)
(* changes.  Every public method of the Collector is one action; the       *)
(* private methods it calls are operators that thread the Collector's      *)
(* state, a record, through the statements of the code.                    *)
(*                                                                         *)
(* Identifiers are sequences of UTF-16 code units, so that the string      *)
(* operations of the code (toLowerCase, substr, template literals, the     *)
(* "<" of the sort) are computed and not assumed.                          *)
(***************************************************************************)
EXTENDS Integers, Sequences, FiniteSets, TLC

VARIABLES
  astSymbolTable,         \* the AstSymbols and AstDeclarations the front end made
  exportedLocalEntities,  \* AstModuleExportInfo.exportedLocalEntities of the entry point
  nsExportedLocalEntities,\* the same table of the module behind the AstNamespaceImport
  astEntityReferences,    \* AstDeclaration.astEntityReferences, per declaration
  localName,              \* AstEntity.localName
  globalNames,            \* the names IGlobalVariableAnalyzer.hasGlobalName() accepts
  docComment,             \* the parsed doc comment of each declaration, or NoDoc
  isExternal,             \* AstSymbol.isExternal, per root symbol
  privateDeclarations,    \* the declarations whose modifierFlags hold Private
  collector,              \* the Collector's fields and the metadata it hangs on the AST
  apiPackage              \* what ApiModelGenerator.buildApiPackage() built, or NotBuilt

input == <<astSymbolTable, exportedLocalEntities, nsExportedLocalEntities,
           astEntityReferences, localName, globalNames, docComment, isExternal,
           privateDeclarations>>
vars == <<input, collector, apiPackage>>

(***************************************************************************)
(* Bounds of the model.                                                    *)
(***************************************************************************)
MaxExports == 2   \* entries of the entry point's export table
MaxRefs == 3      \* entity references in the whole declaration tree
MaxExportNames == 3   \* entries of the export table when the names vary
MaxNameRefs == 2      \* entity references when the names vary
MaxIdentifierLength == 2  \* code units of an identifier when the identifiers vary
MaxAccessors == 3  \* getters and setters that declare one property

(***************************************************************************)
(* The declaration tree.  Declaration d belongs to symbol DeclSymbol[d],   *)
(* is a child of declaration DeclParent[d] (0: a root declaration) and has *)
(* the ts.SyntaxKind DeclKind[d].  The front end made the tree before the  *)
(* Collector runs; the Collector only reads it.                            *)
(***************************************************************************)
\* the elements of a set of declarations in source order
RECURSIVE Ascending(_)
Ascending(s) ==
  IF s = {} THEN <<>>
  ELSE LET m == CHOOSE x \in s : \A y \in s : x <= y
       IN <<m>> \o Ascending(s \ {m})

\* the table of a source text: per declaration its symbol, parent and kind, and from
\* these AstSymbol.astDeclarations and AstDeclaration.children, in source order, and
\* AstSymbol.parentAstSymbol (0: undefined, a root symbol)
AstSymbolTableOf(astSymbol, parent, kind) ==
  [astSymbol |-> astSymbol,
   parent |-> parent,
   kind |-> kind,
   parentAstSymbol |->
     [s \in {astSymbol[d] : d \in 1..Len(astSymbol)} |->
        LET d == CHOOSE x \in 1..Len(astSymbol) : astSymbol[x] = s
        IN IF parent[d] = 0 THEN 0 ELSE astSymbol[parent[d]]],
   astDeclarations |->
     [s \in {astSymbol[d] : d \in 1..Len(astSymbol)} |->
        Ascending({d \in 1..Len(astSymbol) : astSymbol[d] = s})],
   children |->
     [p \in 1..Len(astSymbol) |->
        Ascending({d \in 1..Len(astSymbol) : parent[d] = p})]]

\* a class, an interface and a namespace at the root (symbols 1, 2, 3), a class in
\* the namespace (4) and a method of that class (5)
NamespaceTree ==
  AstSymbolTableOf(
    <<1, 2, 3, 4, 5>>,
    <<0, 0, 0, 3, 4>>,
    <<"ClassDeclaration", "InterfaceDeclaration", "ModuleDeclaration",
      "ClassDeclaration", "MethodDeclaration">>)

\* a class (symbol 1) with a method of two overloads (2), a property declared by a
\* getter and then a setter (3) and one declared by a setter and then a getter (4);
\* and a function of two overloads merged with a namespace (5)
ClassTree ==
  AstSymbolTableOf(
    <<1, 2, 2, 3, 3, 4, 4, 5, 5, 5>>,
    <<0, 1, 1, 1, 1, 1, 1, 0, 0, 0>>,
    <<"ClassDeclaration", "MethodDeclaration", "MethodDeclaration",
      "GetAccessor", "SetAccessor", "SetAccessor", "GetAccessor",
      "FunctionDeclaration", "ModuleDeclaration", "FunctionDeclaration">>)

\* a class merged with a namespace (symbol 1, two declarations), a method of the
\* class (2) and a class at the root (3)
MergedTree ==
  AstSymbolTableOf(
    <<1, 1, 2, 3>>,
    <<0, 0, 1, 0>>,
    <<"ClassDeclaration", "ModuleDeclaration", "MethodDeclaration",
      "ClassDeclaration">>)

DeclSymbol == astSymbolTable.astSymbol
DeclParent == astSymbolTable.parent

Declarations == 1..Len(DeclSymbol)
Symbols == DOMAIN astSymbolTable.astDeclarations
AstNamespaceImport == Cardinality(Symbols) + 1
AstEntities == Symbols \cup {AstNamespaceImport}

IsAstSymbol(astEntity) == astEntity \in Symbols

\* AstSymbol.astDeclarations: the declarations of the symbol, in source order
AstDeclarationsTable == astSymbolTable.astDeclarations
AstDeclarations(astSymbol) == AstDeclarationsTable[astSymbol]

\* AstDeclaration.children, in source order
ChildrenTable == astSymbolTable.children
Children(astDeclaration) == ChildrenTable[astDeclaration]

\* AstSymbol.parentAstSymbol (0: undefined, a root symbol)
ParentAstSymbol(astSymbol) == astSymbolTable.parentAstSymbol[astSymbol]

RECURSIVE RootAstSymbol(_)
RootAstSymbol(astSymbol) ==
  IF ParentAstSymbol(astSymbol) = 0 THEN astSymbol
  ELSE RootAstSymbol(ParentAstSymbol(astSymbol))

RootSymbols == {s \in Symbols : ParentAstSymbol(s) = 0}
RootEntities == RootSymbols \cup {AstNamespaceImport}

\* AstDeclaration.forEachDeclarationRecursive: the declaration, then each child's subtree
RECURSIVE DeclarationSubtree(_)
DeclarationSubtree(astDeclaration) ==
  LET RECURSIVE Over(_, _)
      Over(ch, i) == IF i > Len(ch) THEN <<>>
                     ELSE DeclarationSubtree(ch[i]) \o Over(ch, i + 1)
  IN <<astDeclaration>> \o Over(Children(astDeclaration), 1)

\* AstSymbol.forEachDeclarationRecursive: the order in which the callback sees declarations
ForEachDeclarationRecursive(astSymbol) ==
  LET ds == AstDeclarations(astSymbol)
      RECURSIVE Over(_)
      Over(i) == IF i > Len(ds) THEN <<>>
                 ELSE DeclarationSubtree(ds[i]) \o Over(i + 1)
  IN Over(1)

(***************************************************************************)
(* Identifiers, as sequences of code units.                                *)
(***************************************************************************)
NoName == <<>>                                   \* undefined
NameA == <<65>>                                  \* "A"
NameB == <<66>>                                  \* "B"
NameC == <<67>>                                  \* "C"
NameD == <<68>>                                  \* "D"
NameE == <<69>>                                  \* "E"
NameP == <<80>>                                  \* "P"
NameQ == <<81>>                                  \* "Q"
NameX == <<88>>                                  \* "X"
NameLowerX == <<120>>                            \* "x"
NameUnderX == <<95, 88>>                         \* "_X"
NameNs == <<110, 115>>                           \* "ns"
NameDefault == <<100, 101, 102, 97, 117, 108, 116>>  \* "default"
NameX2 == <<88, 95, 50>>                         \* "X_2"

\* ReleaseTag, the enumeration of @microsoft/api-extractor-model
ReleaseTagNone == 0
ReleaseTagInternal == 1
ReleaseTagAlpha == 2
ReleaseTagBeta == 3
ReleaseTagPublic == 4
ReleaseTags == {ReleaseTagInternal, ReleaseTagAlpha, ReleaseTagBeta, ReleaseTagPublic}

\* AstEntityReferenceKind
KindPlain == "Plain"
KindInheritance == "Inheritance"
ReferenceKinds == {KindPlain, KindInheritance}

NoDoc == [present |-> FALSE, modifiers |-> {}]
NotBuilt == [built |-> FALSE]

\* ts.SyntaxKind of each declaration
DeclKind == astSymbolTable.kind

(***************************************************************************)
(* CollectorEntity.                                                        *)
(***************************************************************************)
NewCollectorEntity(astEntity) ==
  [astEntity |-> astEntity,
   exportNames |-> {},
   consumableViaInheritance |-> FALSE,
   nameForEmit |-> NoName,
   astNamespaceImports |-> {}]

\* CollectorEntity.exported
Exported(entity) == entity.exportNames # {}

\* CollectorEntity.consumable
Consumable(entity) == Exported(entity) \/ entity.consumableViaInheritance

\* CollectorEntity.singleExportName (NoName: undefined)
SingleExportName(entity) ==
  IF Cardinality(entity.exportNames) = 1
  THEN CHOOSE n \in entity.exportNames : TRUE
  ELSE NoName

\* CollectorEntity.addExportName
AddExportName(entity, exportName) ==
  [entity EXCEPT !.exportNames = @ \cup {exportName}]

\* CollectorEntity.addAstNamespaceImports
AddAstNamespaceImports(entity, astNamespaceImport) ==
  [entity EXCEPT !.astNamespaceImports = @ \cup {astNamespaceImport}]

(***************************************************************************)
(* The Collector after construction.  CollectorEntity objects live in      *)
(* collectorEntities and are named by their index in it; entities and      *)
(* entitiesByAstEntity hold such indexes (0: no entry).  ApiItemMetadata   *)
(* objects live in apiItemMetadataObjects in the order of their creation.  *)
(* expanded and solvedSymbols are histories: the entities in the order in  *)
(* which their references were expanded, and the symbols in the order in   *)
(* which their SymbolMetadata was set.                                     *)
(***************************************************************************)
NoSymbolMetadata == [present |-> FALSE, maxEffectiveReleaseTag |-> ReleaseTagNone]
NoDeclarationMetadata ==
  [present |-> FALSE, tsdocParserContext |-> NoDoc, isAncillary |-> FALSE,
   ancillaryDeclarations |-> <<>>]

NewCollector ==
  [astEntryPoint |-> FALSE,
   collectorEntities |-> <<>>,
   entities |-> <<>>,
   entitiesByAstEntity |-> [e \in AstEntities |-> 0],
   alreadySeenAstEntities |-> {},
   expanded |-> <<>>,
   symbolMetadata |-> [s \in Symbols |-> NoSymbolMetadata],
   solvedSymbols |-> <<>>,
   declarationMetadata |-> [d \in Declarations |-> NoDeclarationMetadata],
   apiItemMetadata |-> [d \in Declarations |-> 0],
   apiItemMetadataObjects |-> <<>>,
   cachedOverloadIndexesByDeclaration |-> [d \in Declarations |-> 0],
   messages |-> <<>>,
   error |-> "none",
   analyzed |-> FALSE]

Failed(c) == c.error # "none"
Throw(c, what) == [c EXCEPT !.error = what]

(***************************************************************************)
(* Collector._createCollectorEntity                                        *)
(***************************************************************************)
CreateCollectorEntity_NoLookup(c, astEntity, exportedName, consumableViaInheritance) ==
  LET id == Len(c.collectorEntities) + 1
      c1 == [c EXCEPT !.collectorEntities = Append(@, NewCollectorEntity(astEntity)),
                      !.entitiesByAstEntity[astEntity] = id,
                      !.entities = Append(@, id)]
      c2 == IF exportedName # NoName
            THEN [c1 EXCEPT !.collectorEntities[id] = AddExportName(@, exportedName)]
            ELSE c1
  IN IF consumableViaInheritance
     THEN [c2 EXCEPT !.collectorEntities[id].consumableViaInheritance = TRUE]
     ELSE c2

CreateCollectorEntity_FlagOnlyWhenNew(c, astEntity, exportedName, consumableViaInheritance) ==
  LET existing == c.entitiesByAstEntity[astEntity]
      id == IF existing = 0 THEN Len(c.collectorEntities) + 1 ELSE existing
      c1 == IF existing = 0
            THEN [c EXCEPT !.collectorEntities = Append(@, NewCollectorEntity(astEntity)),
                           !.entitiesByAstEntity[astEntity] = id,
                           !.entities = Append(@, id)]
            ELSE c
      c2 == IF exportedName # NoName
            THEN [c1 EXCEPT !.collectorEntities[id] = AddExportName(@, exportedName)]
            ELSE c1
  IN IF consumableViaInheritance /\ existing = 0
     THEN [c2 EXCEPT !.collectorEntities[id].consumableViaInheritance = TRUE]
     ELSE c2

CreateCollectorEntity(c, astEntity, exportedName, consumableViaInheritance) ==
  LET existing == c.entitiesByAstEntity[astEntity]
      id == IF existing = 0 THEN Len(c.collectorEntities) + 1 ELSE existing
      c1 == IF existing = 0
            THEN [c EXCEPT !.collectorEntities = Append(@, NewCollectorEntity(astEntity)),
                           !.entitiesByAstEntity[astEntity] = id,
                           !.entities = Append(@, id)]
            ELSE c
      c2 == IF exportedName # NoName
            THEN [c1 EXCEPT !.collectorEntities[id] = AddExportName(@, exportedName)]
            ELSE c1
  IN IF consumableViaInheritance
     THEN [c2 EXCEPT !.collectorEntities[id].consumableViaInheritance = TRUE]
     ELSE c2

(***************************************************************************)
(* Collector._createEntityForIndirectReferences.  refs is the list of the  *)
(* references that the forEachDeclarationRecursive callback walks, in its  *)
(* order; ExpandReferences is the callback's body from reference i on.     *)
(***************************************************************************)
ReferencesOf(fe, astSymbol) ==
  LET ds == ForEachDeclarationRecursive(astSymbol)
      RECURSIVE Over(_)
      Over(i) == IF i > Len(ds) THEN <<>> ELSE fe.astEntityReferences[ds[i]] \o Over(i + 1)
  IN Over(1)

\* the consumableViaInheritance argument computed for one reference
ConsumableViaInheritanceOf_AnyKind(entity, referenceKind) == Consumable(entity)

ConsumableViaInheritanceOf(entity, referenceKind) ==
  Consumable(entity) /\ referenceKind = KindInheritance

\* whether a referenced AstSymbol gets a CollectorEntity
IsRootLevel_Always(astSymbol) == TRUE

IsRootLevel(astSymbol) == ParentAstSymbol(astSymbol) = 0

RECURSIVE CreateEntityForIndirectReferences(_, _, _)
RECURSIVE ExpandReferences(_, _, _, _, _)
RECURSIVE ExpandNamespaceExports(_, _, _, _)

CreateEntityForIndirectReferences(fe, c, astEntity) ==
  IF Failed(c) \/ astEntity \in c.alreadySeenAstEntities THEN c
  ELSE
    LET c1 == [c EXCEPT !.alreadySeenAstEntities = @ \cup {astEntity},
                         !.expanded = Append(@, astEntity)]
        c2 == IF IsAstSymbol(astEntity)
              THEN ExpandReferences(fe, c1, astEntity,
                                    ReferencesOf(fe, astEntity), 1)
              ELSE c1
    IN IF astEntity = AstNamespaceImport
       THEN ExpandNamespaceExports(fe, c2, astEntity, 1)
       ELSE c2

ExpandReferences(fe, c, astEntity, refs, i) ==
  IF Failed(c) \/ i > Len(refs) THEN c
  ELSE
    LET referencedAstEntity == refs[i].astEntity
        referenceKind == refs[i].kind
        id == c.entitiesByAstEntity[astEntity]
    IN IF id = 0 THEN Throw(c, "Error")
       ELSE
         LET consumableViaInheritance ==
               ConsumableViaInheritanceOf(c.collectorEntities[id], referenceKind)
             c1 == IF IsAstSymbol(referencedAstEntity)
                   THEN IF IsRootLevel(referencedAstEntity)
                        THEN CreateCollectorEntity(c, referencedAstEntity, NoName,
                                                   consumableViaInheritance)
                        ELSE c
                   ELSE CreateCollectorEntity(c, referencedAstEntity, NoName,
                                              consumableViaInheritance)
             c2 == CreateEntityForIndirectReferences(fe, c1, referencedAstEntity)
         IN ExpandReferences(fe, c2, astEntity, refs, i + 1)

ExpandNamespaceExports(fe, c, astEntity, i) ==
  IF Failed(c) \/ i > Len(fe.nsExportedLocalEntities) THEN c
  ELSE
    LET exportedEntity == fe.nsExportedLocalEntities[i][2]
        c1 == CreateCollectorEntity(c, exportedEntity, NoName, FALSE)
        id == c1.entitiesByAstEntity[exportedEntity]
        c2 == [c1 EXCEPT !.collectorEntities[id] = AddAstNamespaceImports(@, astEntity)]
        c3 == CreateEntityForIndirectReferences(fe, c2, exportedEntity)
    IN ExpandNamespaceExports(fe, c3, astEntity, i + 1)

(***************************************************************************)
(* Collector._makeUniqueNames                                              *)
(***************************************************************************)
\* IGlobalVariableAnalyzer.hasGlobalName
HasGlobalName(fe, name) == name \in fe.globalNames

\* the decimal digits of a positive number, as a template literal prints it
RECURSIVE DecimalDigits(_)
DecimalDigits(n) ==
  IF n < 10 THEN <<48 + n>>
  ELSE DecimalDigits(n \div 10) \o <<48 + (n % 10)>>

\* `${idealNameForEmit}_${suffix}`
SuffixedName(idealNameForEmit, suffix) ==
  idealNameForEmit \o <<95>> \o DecimalDigits(suffix)

\* idealNameForEmit.split('.')[0]
RECURSIVE BeforeFirstDot(_)
BeforeFirstDot(name) ==
  IF name = <<>> \/ Head(name) = 46 THEN <<>>
  ELSE <<Head(name)>> \o BeforeFirstDot(Tail(name))

\* lines 535-551: the name the entity would ideally be emitted as
IdealNameForEmit_AnyExport(fe, entity) ==
  IF entity.exportNames # {}
  THEN CHOOSE n \in entity.exportNames : TRUE
  ELSE fe.localName[entity.astEntity]

IdealNameForEmit_AllowDefault(fe, entity) ==
  IF SingleExportName(entity) # NoName
  THEN SingleExportName(entity)
  ELSE fe.localName[entity.astEntity]

IdealNameForEmit(fe, entity) ==
  LET name == IF SingleExportName(entity) # NoName
                 /\ SingleExportName(entity) # NameDefault
              THEN SingleExportName(entity)
              ELSE fe.localName[entity.astEntity]
  IN IF \E i \in 1..Len(name) : name[i] = 46 THEN BeforeFirstDot(name) ELSE name

\* the condition of the while loop of lines 570-574
NameConflicts_IgnoreUsed(fe, usedNames, nameForEmit) ==
  \/ nameForEmit = NameDefault
  \/ HasGlobalName(fe, nameForEmit)

NameConflicts(fe, usedNames, nameForEmit) ==
  \/ nameForEmit = NameDefault
  \/ nameForEmit \in usedNames
  \/ HasGlobalName(fe, nameForEmit)

\* lines 566-576: the first of ideal, ideal_2, ideal_3, ... that does not conflict
RECURSIVE ChooseUnusedName_FromOne(_, _, _, _, _)
ChooseUnusedName_FromOne(fe, usedNames, idealNameForEmit, nameForEmit, suffix) ==
  IF NameConflicts(fe, usedNames, nameForEmit)
  THEN ChooseUnusedName_FromOne(fe, usedNames, idealNameForEmit,
                                SuffixedName(idealNameForEmit, suffix), suffix + 1)
  ELSE nameForEmit

RECURSIVE ChooseUnusedName(_, _, _, _, _)
ChooseUnusedName(fe, usedNames, idealNameForEmit, nameForEmit, suffix) ==
  IF NameConflicts(fe, usedNames, nameForEmit)
  THEN ChooseUnusedName(fe, usedNames, idealNameForEmit,
                        SuffixedName(idealNameForEmit, suffix + 1), suffix + 1)
  ELSE nameForEmit

\* lines 522-530: the export names of all entities, or the fact that one is used twice
RECURSIVE CollectExportNames_NoCheck(_, _, _)
CollectExportNames_NoCheck(c, i, usedNames) ==
  IF i > Len(c.entities) THEN [duplicate |-> FALSE, usedNames |-> usedNames]
  ELSE CollectExportNames_NoCheck(c, i + 1,
         usedNames \cup c.collectorEntities[c.entities[i]].exportNames)

RECURSIVE CollectExportNames(_, _, _)
CollectExportNames(c, i, usedNames) ==
  IF i > Len(c.entities) THEN [duplicate |-> FALSE, usedNames |-> usedNames]
  ELSE LET names == c.collectorEntities[c.entities[i]].exportNames
       IN IF names \cap usedNames # {}
          THEN [duplicate |-> TRUE, usedNames |-> usedNames]
          ELSE CollectExportNames(c, i + 1, usedNames \cup names)

\* lines 553-563: the ideal name is accepted as it is
AcceptsIdealName_Never(fe, entity, idealNameForEmit) == FALSE

AcceptsIdealName(fe, entity, idealNameForEmit) ==
  /\ idealNameForEmit \in entity.exportNames
  /\ ~HasGlobalName(fe, idealNameForEmit)
  /\ idealNameForEmit # NameDefault

\* one iteration of the loop of lines 533-579; st = [c, usedNames]
AssignNameForEmit(fe, st, id) ==
  LET entity == st.c.collectorEntities[id]
      idealNameForEmit == IdealNameForEmit(fe, entity)
  IN IF AcceptsIdealName(fe, entity, idealNameForEmit)
     THEN [st EXCEPT !.c.collectorEntities[id].nameForEmit = idealNameForEmit]
     ELSE LET nameForEmit ==
                ChooseUnusedName(fe, st.usedNames, idealNameForEmit, idealNameForEmit, 1)
          IN [c |-> [st.c EXCEPT !.collectorEntities[id].nameForEmit = nameForEmit],
              usedNames |-> st.usedNames \cup {nameForEmit}]

RECURSIVE AssignNamesFrom(_, _, _)
AssignNamesFrom(fe, st, i) ==
  IF i > Len(st.c.entities) THEN st
  ELSE AssignNamesFrom(fe, AssignNameForEmit(fe, st, st.c.entities[i]), i + 1)

MakeUniqueNames(fe, c) ==
  IF Failed(c) THEN c
  ELSE LET collected == CollectExportNames(c, 1, {})
       IN IF collected.duplicate THEN Throw(c, "InternalError")
          ELSE AssignNamesFrom(fe, [c |-> c, usedNames |-> collected.usedNames], 1).c

(***************************************************************************)
(* Collector.getSortKeyIgnoringUnderscore and the sort of the entities.    *)
(***************************************************************************)
\* String.prototype.toLowerCase on the code units A..Z
ToLowerCase(name) ==
  [i \in 1..Len(name) |-> IF name[i] >= 65 /\ name[i] <= 90 THEN name[i] + 32 ELSE name[i]]

GetSortKeyIgnoringUnderscore(identifier) ==
  IF identifier = NoName THEN <<>>
  ELSE IF identifier[1] = 95
       THEN LET withoutUnderscore == Tail(identifier)
            IN ToLowerCase(withoutUnderscore) \o <<42>> \o withoutUnderscore
                 \o <<42>> \o <<95>>
       ELSE ToLowerCase(identifier) \o <<42>> \o identifier

\* CollectorEntity.getSortKey
GetSortKey(fe, entity) ==
  GetSortKeyIgnoringUnderscore(
    IF entity.nameForEmit # NoName THEN entity.nameForEmit
    ELSE fe.localName[entity.astEntity])

\* the "<" of two strings: by code units, a proper prefix first
RECURSIVE StringLess(_, _)
StringLess(a, b) ==
  IF b = <<>> THEN FALSE
  ELSE IF a = <<>> THEN TRUE
  ELSE IF Head(a) # Head(b) THEN Head(a) < Head(b)
  ELSE StringLess(Tail(a), Tail(b))

\* Sort.sortBy: a stable sort by the key
RECURSIVE InsertByKey(_, _, _)
InsertByKey(sorted, x, keyOf) ==
  IF sorted = <<>> THEN <<x>>
  ELSE IF StringLess(keyOf[x], keyOf[Head(sorted)]) THEN <<x>> \o sorted
  ELSE <<Head(sorted)>> \o InsertByKey(Tail(sorted), x, keyOf)

RECURSIVE SortByKey(_, _, _)
SortByKey(array, keyOf, i) ==
  IF i = 0 THEN <<>>
  ELSE InsertByKey(SortByKey(array, keyOf, i - 1), array[i], keyOf)

SortEntities(fe, c) ==
  IF Failed(c) THEN c
  ELSE LET keyOf == [id \in 1..Len(c.collectorEntities) |->
                       GetSortKey(fe, c.collectorEntities[id])]
       IN [c EXCEPT !.entities = SortByKey(c.entities, keyOf, Len(c.entities))]

(***************************************************************************)
(* Metadata: Collector._fetchSymbolMetadata and what it calls.             *)
(***************************************************************************)
AddAnalyzerIssue(c, messageId, target) ==
  [c EXCEPT !.messages = Append(@, [messageId |-> messageId, target |-> target])]

\* AstSymbol.isExternal: a nested symbol is as external as its root
IsExternal(fe, astSymbol) == fe.isExternal[RootAstSymbol(astSymbol)]

\* Collector._addAncillaryDeclaration, were it to leave isAncillary as it is
AddAncillaryDeclaration_NoFlag(c, mainAstDeclaration, ancillaryAstDeclaration) ==
  IF Failed(c) THEN c
  ELSE [c EXCEPT !.declarationMetadata[mainAstDeclaration].ancillaryDeclarations =
                     Append(@, ancillaryAstDeclaration)]

\* Collector._addAncillaryDeclaration
AddAncillaryDeclaration(c, mainAstDeclaration, ancillaryAstDeclaration) ==
  LET mainMetadata == c.declarationMetadata[mainAstDeclaration]
      ancillaryMetadata == c.declarationMetadata[ancillaryAstDeclaration]
  IN IF Failed(c) THEN c
     ELSE IF \E i \in 1..Len(mainMetadata.ancillaryDeclarations) :
                mainMetadata.ancillaryDeclarations[i] = ancillaryAstDeclaration
     THEN c
     ELSE IF DeclSymbol[mainAstDeclaration] # DeclSymbol[ancillaryAstDeclaration]
     THEN Throw(c, "InternalError")
     ELSE IF mainMetadata.isAncillary THEN Throw(c, "InternalError")
     ELSE IF ancillaryMetadata.isAncillary THEN Throw(c, "InternalError")
     ELSE IF c.apiItemMetadata[mainAstDeclaration] # 0
             \/ c.apiItemMetadata[ancillaryAstDeclaration] # 0
     THEN Throw(c, "InternalError")
     ELSE [c EXCEPT
             !.declarationMetadata[ancillaryAstDeclaration].isAncillary = TRUE,
             !.declarationMetadata[mainAstDeclaration].ancillaryDeclarations =
                 Append(@, ancillaryAstDeclaration)]

\* lines 622-634: a DeclarationMetadata for each declaration of the symbol
RECURSIVE InitializeDeclarationMetadata(_, _, _, _)
InitializeDeclarationMetadata(fe, c, ds, i) ==
  IF Failed(c) \/ i > Len(ds) THEN c
  ELSE IF c.declarationMetadata[ds[i]].present THEN Throw(c, "InternalError")
  ELSE InitializeDeclarationMetadata(fe,
         [c EXCEPT !.declarationMetadata[ds[i]] =
            [present |-> TRUE, tsdocParserContext |-> fe.docComment[ds[i]],
             isAncillary |-> FALSE, ancillaryDeclarations |-> <<>>]],
         ds, i + 1)

\* lines 641-648: the getters of the symbol, each linked to the setter
RECURSIVE LinkGetters(_, _, _, _)
LinkGetters(c, ds, setter, j) ==
  IF Failed(c) \/ j > Len(ds) THEN c
  ELSE IF DeclKind[ds[j]] = "GetAccessor"
  THEN LinkGetters(AddAncillaryDeclaration(c, ds[j], setter), ds, setter, j + 1)
  ELSE LinkGetters(c, ds, setter, j + 1)

\* lines 636-658
RECURSIVE DetectAncillaryDeclarations(_, _, _)
DetectAncillaryDeclarations(c, ds, i) ==
  IF Failed(c) \/ i > Len(ds) THEN c
  ELSE IF DeclKind[ds[i]] = "SetAccessor"
  THEN LET c1 == LinkGetters(c, ds, ds[i], 1)
           foundGetter == \E j \in 1..Len(ds) : DeclKind[ds[j]] = "GetAccessor"
           c2 == IF ~Failed(c1) /\ ~foundGetter
                 THEN AddAnalyzerIssue(c1, "MissingGetter", ds[i])
                 ELSE c1
       IN DetectAncillaryDeclarations(c2, ds, i + 1)
  ELSE DetectAncillaryDeclarations(c, ds, i + 1)

\* Collector._calculateDeclarationMetadataForDeclarations
CalculateDeclarationMetadataForDeclarations(fe, c, astSymbol) ==
  LET ds == AstDeclarations(astSymbol)
  IN DetectAncillaryDeclarations(InitializeDeclarationMetadata(fe, c, ds, 1), ds, 1)

\* lines 740-766, were the declared tag undefined for more than one release tag
DeclaredReleaseTagOf_NoneWhenExtra(modifierTagSet) ==
  [declaredReleaseTag |->
     IF Cardinality(modifierTagSet \cap ReleaseTags) = 1
     THEN CHOOSE t \in modifierTagSet \cap ReleaseTags : TRUE
     ELSE ReleaseTagNone,
   extraReleaseTags |-> Cardinality(modifierTagSet \cap ReleaseTags) > 1]

\* lines 740-766: the declared tag of a doc comment and whether it has extra tags
DeclaredReleaseTagOf(modifierTagSet) ==
  LET t1 == IF ReleaseTagPublic \in modifierTagSet THEN ReleaseTagPublic
            ELSE ReleaseTagNone
      t2 == IF ReleaseTagBeta \in modifierTagSet /\ t1 = ReleaseTagNone
            THEN ReleaseTagBeta ELSE t1
      t3 == IF ReleaseTagAlpha \in modifierTagSet /\ t2 = ReleaseTagNone
            THEN ReleaseTagAlpha ELSE t2
      t4 == IF ReleaseTagInternal \in modifierTagSet /\ t3 = ReleaseTagNone
            THEN ReleaseTagInternal ELSE t3
  IN [declaredReleaseTag |-> t4,
      extraReleaseTags |->
        \/ ReleaseTagBeta \in modifierTagSet /\ t1 # ReleaseTagNone
        \/ ReleaseTagAlpha \in modifierTagSet /\ t2 # ReleaseTagNone
        \/ ReleaseTagInternal \in modifierTagSet /\ t3 # ReleaseTagNone]

\* lines 818-830: the effective tag before the healing of a missing tag
InheritedReleaseTag_Declared(declaredReleaseTag, hasParent, parentEffectiveReleaseTag) ==
  declaredReleaseTag

InheritedReleaseTag_ParentWins(declaredReleaseTag, hasParent, parentEffectiveReleaseTag) ==
  IF hasParent /\ parentEffectiveReleaseTag # ReleaseTagNone
  THEN parentEffectiveReleaseTag
  ELSE declaredReleaseTag

InheritedReleaseTag(declaredReleaseTag, hasParent, parentEffectiveReleaseTag) ==
  IF hasParent
  THEN IF declaredReleaseTag = ReleaseTagNone
       THEN parentEffectiveReleaseTag
       ELSE declaredReleaseTag
  ELSE declaredReleaseTag

RECURSIVE FetchSymbolMetadataInternal(_, _, _)
RECURSIVE SolveParentAstSymbol(_, _, _)
RECURSIVE CalculateApiItemMetadata(_, _, _)
RECURSIVE CalculateApiItemMetadataFrom(_, _, _, _)
RECURSIVE CalculateApiItemMetadataFrom_LastFirst(_, _, _, _)

\* Collector.fetchApiItemMetadata, as a step on the Collector's state
FetchApiItemMetadataOp(fe, c, astDeclaration) ==
  IF Failed(c) THEN c
  ELSE IF c.apiItemMetadata[astDeclaration] = 0
  THEN FetchSymbolMetadataInternal(fe, c, DeclSymbol[astDeclaration])
  ELSE c

\* Collector.fetchDeclarationMetadata, as a step on the Collector's state
FetchDeclarationMetadataOp(fe, c, astDeclaration) ==
  IF Failed(c) THEN c
  ELSE IF ~c.declarationMetadata[astDeclaration].present
  THEN FetchSymbolMetadataInternal(fe, c, DeclSymbol[astDeclaration])
  ELSE c

\* Collector.fetchSymbolMetadata, as a step on the Collector's state
FetchSymbolMetadataOp(fe, c, astSymbol) ==
  IF Failed(c) THEN c
  ELSE IF ~c.symbolMetadata[astSymbol].present
  THEN FetchSymbolMetadataInternal(fe, c, astSymbol)
  ELSE c

\* lines 865-867: the ApiItemMetadata is shared with the ancillary declarations
ShareWithAncillaryDeclarations_None(c, ancillaryDeclarations, i, id) == c

RECURSIVE ShareWithAncillaryDeclarations(_, _, _, _)
ShareWithAncillaryDeclarations(c, ancillaryDeclarations, i, id) ==
  IF i > Len(ancillaryDeclarations) THEN c
  ELSE ShareWithAncillaryDeclarations(
         [c EXCEPT !.apiItemMetadata[ancillaryDeclarations[i]] = id],
         ancillaryDeclarations, i + 1, id)

\* lines 736-766: the declared tag of the declaration's doc comment, if it has one
DeclaredOf(c, astDeclaration) ==
  IF c.declarationMetadata[astDeclaration].tsdocParserContext.present
  THEN DeclaredReleaseTagOf(c.declarationMetadata[astDeclaration].tsdocParserContext.modifiers)
  ELSE [declaredReleaseTag |-> ReleaseTagNone, extraReleaseTags |-> FALSE]

\* lines 768-777
ReportExtraReleaseTag(fe, c, astDeclaration) ==
  IF DeclaredOf(c, astDeclaration).extraReleaseTags
     /\ ~IsExternal(fe, DeclSymbol[astDeclaration])
  THEN AddAnalyzerIssue(c, "ExtraReleaseTag", astDeclaration)
  ELSE c

\* line 820: this.fetchApiItemMetadata(astDeclaration.parent)
FetchParentApiItemMetadata(fe, c, astDeclaration) ==
  IF DeclParent[astDeclaration] # 0
  THEN FetchApiItemMetadataOp(fe, c, DeclParent[astDeclaration])
  ELSE c

\* parentApiItemMetadata.effectiveReleaseTag
ParentEffectiveReleaseTag(c, astDeclaration) ==
  IF DeclParent[astDeclaration] # 0
  THEN c.apiItemMetadataObjects[c.apiItemMetadata[DeclParent[astDeclaration]]]
         .effectiveReleaseTag
  ELSE ReleaseTagNone

\* lines 837-838: the entity of the root symbol is there and is consumable
RootIsConsumable(c, astSymbol) ==
  /\ c.entitiesByAstEntity[RootAstSymbol(astSymbol)] # 0
  /\ Consumable(c.collectorEntities[c.entitiesByAstEntity[RootAstSymbol(astSymbol)]])

\* lines 832-855: a missing tag is reported, unless the root is named _default
ReportMissingReleaseTag(fe, c, astSymbol, inherited) ==
  IF /\ inherited = ReleaseTagNone
     /\ ~IsExternal(fe, astSymbol)
     /\ RootIsConsumable(c, astSymbol)
     /\ fe.localName[RootAstSymbol(astSymbol)] # <<95>> \o NameDefault
  THEN AddAnalyzerIssue(c, "MissingReleaseTag", astSymbol)
  ELSE c

HealedReleaseTag_ExternalOnly(fe, c, astSymbol, inherited) ==
  IF inherited = ReleaseTagNone /\ IsExternal(fe, astSymbol)
  THEN ReleaseTagPublic
  ELSE inherited

\* lines 832-855: a missing tag of external or consumable code becomes Public
HealedReleaseTag(fe, c, astSymbol, inherited) ==
  IF inherited = ReleaseTagNone
     /\ (IsExternal(fe, astSymbol) \/ RootIsConsumable(c, astSymbol))
  THEN ReleaseTagPublic
  ELSE inherited

\* lines 857-867: the new ApiItemMetadata, shared with the ancillary declarations
SetApiItemMetadata(c, astDeclaration, apiItemMetadata) ==
  ShareWithAncillaryDeclarations(
    [c EXCEPT !.apiItemMetadataObjects = Append(@, apiItemMetadata),
              !.apiItemMetadata[astDeclaration] = Len(c.apiItemMetadataObjects) + 1],
    c.declarationMetadata[astDeclaration].ancillaryDeclarations, 1,
    Len(c.apiItemMetadataObjects) + 1)

\* lines 818-868, once the declared tag and the tag before healing are known
StoreApiItemMetadata(fe, c, astDeclaration, declaredReleaseTag, inherited) ==
  SetApiItemMetadata(
    ReportMissingReleaseTag(fe, c, DeclSymbol[astDeclaration], inherited),
    astDeclaration,
    [declaredReleaseTag |-> declaredReleaseTag,
     effectiveReleaseTag |->
       HealedReleaseTag(fe, c, DeclSymbol[astDeclaration], inherited),
     releaseTagSameAsParent |->
       DeclParent[astDeclaration] # 0
       /\ ParentEffectiveReleaseTag(c, astDeclaration) = inherited,
     tsdocComment |-> c.declarationMetadata[astDeclaration].tsdocParserContext.present])

\* lines 818-830, after the parent's ApiItemMetadata was fetched
ResolveApiItemMetadata(fe, c, astDeclaration, declaredReleaseTag) ==
  IF Failed(c) THEN c
  ELSE IF DeclParent[astDeclaration] # 0
          /\ c.apiItemMetadata[DeclParent[astDeclaration]] = 0
  THEN Throw(c, "TypeError")
  ELSE StoreApiItemMetadata(fe, c, astDeclaration, declaredReleaseTag,
         InheritedReleaseTag(declaredReleaseTag, DeclParent[astDeclaration] # 0,
                             ParentEffectiveReleaseTag(c, astDeclaration)))

\* Collector._calculateApiItemMetadata, were it to go on for an ancillary declaration
CalculateApiItemMetadata_ForAncillaryToo(fe, c, astDeclaration) ==
  IF Failed(c) THEN c
  ELSE ResolveApiItemMetadata(fe,
         FetchParentApiItemMetadata(fe, ReportExtraReleaseTag(fe, c, astDeclaration),
                                    astDeclaration),
         astDeclaration,
         DeclaredOf(c, astDeclaration).declaredReleaseTag)

\* Collector._calculateApiItemMetadata
CalculateApiItemMetadata(fe, c, astDeclaration) ==
  IF Failed(c) THEN c
  ELSE IF c.declarationMetadata[astDeclaration].isAncillary
  THEN IF DeclKind[astDeclaration] = "SetAccessor"
          /\ c.declarationMetadata[astDeclaration].tsdocParserContext.present
       THEN AddAnalyzerIssue(c, "SetterWithDocs", astDeclaration)
       ELSE c
  ELSE ResolveApiItemMetadata(fe,
         FetchParentApiItemMetadata(fe, ReportExtraReleaseTag(fe, c, astDeclaration),
                                    astDeclaration),
         astDeclaration,
         DeclaredOf(c, astDeclaration).declaredReleaseTag)

\* lines 597-599
CalculateApiItemMetadataFrom_LastFirst(fe, c, ds, i) ==
  IF Failed(c) \/ i > Len(ds) THEN c
  ELSE CalculateApiItemMetadataFrom_LastFirst(fe,
         CalculateApiItemMetadata(fe, c, ds[Len(ds) + 1 - i]), ds, i + 1)

CalculateApiItemMetadataFrom(fe, c, ds, i) ==
  IF Failed(c) \/ i > Len(ds) THEN c
  ELSE CalculateApiItemMetadataFrom(fe, CalculateApiItemMetadata(fe, c, ds[i]), ds, i + 1)

\* lines 601-613: the most public effective tag of the declarations
RECURSIVE MaxEffectiveReleaseTag(_, _, _, _)
MaxEffectiveReleaseTag(c, ds, i, maxEffectiveReleaseTag) ==
  IF i > Len(ds) THEN maxEffectiveReleaseTag
  ELSE LET effectiveReleaseTag ==
             c.apiItemMetadataObjects[c.apiItemMetadata[ds[i]]].effectiveReleaseTag
       IN MaxEffectiveReleaseTag(c, ds, i + 1,
            IF effectiveReleaseTag > maxEffectiveReleaseTag
            THEN effectiveReleaseTag ELSE maxEffectiveReleaseTag)

\* lines 587-591: the parent is solved first
SolveParentAstSymbol(fe, c, astSymbol) ==
  IF ParentAstSymbol(astSymbol) # 0 /\ ~c.symbolMetadata[ParentAstSymbol(astSymbol)].present
  THEN FetchSymbolMetadataInternal(fe, c, ParentAstSymbol(astSymbol))
  ELSE c

\* lines 601-618: the SymbolMetadata, set last
SetSymbolMetadata(c, astSymbol) ==
  IF Failed(c) THEN c
  ELSE IF \E i \in 1..Len(AstDeclarations(astSymbol)) :
            c.apiItemMetadata[AstDeclarations(astSymbol)[i]] = 0
  THEN Throw(c, "TypeError")
  ELSE [c EXCEPT !.symbolMetadata[astSymbol] =
          [present |-> TRUE,
           maxEffectiveReleaseTag |->
             MaxEffectiveReleaseTag(c, AstDeclarations(astSymbol), 1, ReleaseTagNone)],
                 !.solvedSymbols = Append(@, astSymbol)]

\* Collector._fetchSymbolMetadata
FetchSymbolMetadataInternal(fe, c, astSymbol) ==
  IF Failed(c) \/ c.symbolMetadata[astSymbol].present THEN c
  ELSE SetSymbolMetadata(
         CalculateApiItemMetadataFrom(fe,
           CalculateDeclarationMetadataForDeclarations(fe,
             SolveParentAstSymbol(fe, c, astSymbol), astSymbol),
           AstDeclarations(astSymbol), 1),
         astSymbol)

(***************************************************************************)
(* Collector.analyze                                                       *)
(***************************************************************************)
\* lines 256-260: a CollectorEntity for each top-level export
RECURSIVE RegisterExports(_, _, _)
RegisterExports(fe, c, i) ==
  IF i > Len(fe.exportedLocalEntities) THEN c
  ELSE RegisterExports(fe,
         CreateCollectorEntity(c, fe.exportedLocalEntities[i][2],
                               fe.exportedLocalEntities[i][1], FALSE),
         i + 1)

\* lines 268-270: the metadata of an exported AstSymbol
FetchExportedSymbolMetadata(fe, c, exportedAstEntity) ==
  IF IsAstSymbol(exportedAstEntity)
  THEN FetchSymbolMetadataOp(fe, c, exportedAstEntity)
  ELSE c

\* lines 265-272: the indirect references of each export, then its metadata
RECURSIVE ExpandExports_NewSetPerExport(_, _, _)
ExpandExports_NewSetPerExport(fe, c, i) ==
  IF Failed(c) \/ i > Len(fe.exportedLocalEntities) THEN c
  ELSE ExpandExports_NewSetPerExport(fe,
         FetchExportedSymbolMetadata(fe,
           CreateEntityForIndirectReferences(fe,
             [c EXCEPT !.alreadySeenAstEntities = {}], fe.exportedLocalEntities[i][2]),
           fe.exportedLocalEntities[i][2]),
         i + 1)

RECURSIVE ExpandExports(_, _, _)
ExpandExports(fe, c, i) ==
  IF Failed(c) \/ i > Len(fe.exportedLocalEntities) THEN c
  ELSE ExpandExports(fe,
         FetchExportedSymbolMetadata(fe,
           CreateEntityForIndirectReferences(fe, c, fe.exportedLocalEntities[i][2]),
           fe.exportedLocalEntities[i][2]),
         i + 1)

\* lines 274-282: names first, then the sort
NameAndSort_SortFirst(fe, c) == MakeUniqueNames(fe, SortEntities(fe, c))

NameAndSort(fe, c) == SortEntities(fe, MakeUniqueNames(fe, c))

\* analyze() returned
Analyzed(c) == IF Failed(c) THEN c ELSE [c EXCEPT !.analyzed = TRUE]

AnalyzeOp_Again(fe, c) ==
  Analyzed(
    NameAndSort(fe,
      ExpandExports(fe,
        RegisterExports(fe, [c EXCEPT !.astEntryPoint = TRUE], 1), 1)))

AnalyzeOp(fe, c) ==
  IF c.astEntryPoint THEN Throw(c, "Error")
  ELSE Analyzed(
         NameAndSort(fe,
           ExpandExports(fe,
             RegisterExports(fe, [c EXCEPT !.astEntryPoint = TRUE], 1), 1)))

(***************************************************************************)
(* Collector.getNonAncillaryDeclarations and Collector.getOverloadIndex    *)
(***************************************************************************)
\* the fetchDeclarationMetadata calls of getNonAncillaryDeclarations
RECURSIVE FetchDeclarationMetadataFrom(_, _, _, _)
FetchDeclarationMetadataFrom(fe, c, ds, i) ==
  IF Failed(c) \/ i > Len(ds) THEN c
  ELSE FetchDeclarationMetadataFrom(fe, FetchDeclarationMetadataOp(fe, c, ds[i]), ds, i + 1)

\* the result of getNonAncillaryDeclarations, once the metadata is there
NonAncillaryDeclarations(c, astSymbol) ==
  SelectSeq(AstDeclarations(astSymbol),
            LAMBDA d : ~c.declarationMetadata[d].isAncillary)

\* lines 397-405: the indexes of the declarations of the kind of astDeclaration
RECURSIVE CacheOverloadIndexes_AnyKind(_, _, _, _, _)
CacheOverloadIndexes_AnyKind(c, astDeclaration, ds, i, nextIndex) ==
  IF i > Len(ds) THEN c
  ELSE CacheOverloadIndexes_AnyKind(
         [c EXCEPT !.cachedOverloadIndexesByDeclaration[ds[i]] = nextIndex],
         astDeclaration, ds, i + 1, nextIndex + 1)

RECURSIVE CacheOverloadIndexes(_, _, _, _, _)
CacheOverloadIndexes(c, astDeclaration, ds, i, nextIndex) ==
  IF i > Len(ds) THEN c
  ELSE IF DeclKind[ds[i]] = DeclKind[astDeclaration]
  THEN CacheOverloadIndexes(
         [c EXCEPT !.cachedOverloadIndexesByDeclaration[ds[i]] = nextIndex],
         astDeclaration, ds, i + 1, nextIndex + 1)
  ELSE CacheOverloadIndexes(c, astDeclaration, ds, i + 1, nextIndex)

\* lines 407-412: the declaration must have an index now
CheckOverloadIndex(c, astDeclaration) ==
  IF c.cachedOverloadIndexesByDeclaration[astDeclaration] = 0
  THEN Throw(c, "InternalError")
  ELSE c

\* Collector.getOverloadIndex, as a step on the Collector's state
GetOverloadIndexOp(c, astDeclaration) ==
  IF Failed(c) \/ Len(AstDeclarations(DeclSymbol[astDeclaration])) = 1 THEN c
  ELSE IF c.cachedOverloadIndexesByDeclaration[astDeclaration] # 0 THEN c
  ELSE CheckOverloadIndex(
         CacheOverloadIndexes(c, astDeclaration,
                              AstDeclarations(DeclSymbol[astDeclaration]), 1, 1),
         astDeclaration)

\* the number getOverloadIndex returns after that step
OverloadIndex(c, astDeclaration) ==
  IF Len(AstDeclarations(DeclSymbol[astDeclaration])) = 1 THEN 1
  ELSE c.cachedOverloadIndexesByDeclaration[astDeclaration]

(***************************************************************************)
(* ApiModelGenerator.buildApiPackage.  st = [c, members]: the Collector    *)
(* and the API items added so far; an item's parent is the index of the    *)
(* item it was added to (0: the entry point).                              *)
(***************************************************************************)
ApiItemKindTable ==
  [k \in {"CallSignature", "Constructor", "ConstructSignature", "ClassDeclaration",
          "EnumDeclaration", "EnumMember", "FunctionDeclaration", "GetAccessor",
          "SetAccessor", "IndexSignature", "InterfaceDeclaration", "MethodDeclaration",
          "MethodSignature", "ModuleDeclaration", "PropertyDeclaration",
          "PropertySignature", "TypeAliasDeclaration", "VariableDeclaration"} |->
     CASE k = "ClassDeclaration" -> "Class"
       [] k = "EnumDeclaration" -> "Enum"
       [] k = "FunctionDeclaration" -> "Function"
       [] k \in {"GetAccessor", "SetAccessor", "PropertyDeclaration"} -> "Property"
       [] k = "InterfaceDeclaration" -> "Interface"
       [] k = "MethodDeclaration" -> "Method"
       [] k = "ModuleDeclaration" -> "Namespace"
       [] k = "TypeAliasDeclaration" -> "TypeAlias"
       [] k = "VariableDeclaration" -> "Variable"
       [] OTHER -> k]

\* the kinds whose container key holds the overload index
OverloadedKinds ==
  {"CallSignature", "Constructor", "ConstructSignature", "FunctionDeclaration",
   "IndexSignature", "MethodDeclaration", "MethodSignature"}

\* the kinds whose container key holds no name
UnnamedKinds == {"CallSignature", "Constructor", "ConstructSignature", "IndexSignature"}

\* the kinds whose processing ends with _processChildDeclarations
ContainerKinds ==
  {"ClassDeclaration", "EnumDeclaration", "InterfaceDeclaration", "ModuleDeclaration"}

\* parentApiItem.tryGetMemberByKey (0: undefined)
TryGetMemberByKey(members, parentApiItem, containerKey) ==
  IF \E i \in 1..Len(members) :
       members[i].parent = parentApiItem /\ members[i].containerKey = containerKey
  THEN CHOOSE i \in 1..Len(members) :
         members[i].parent = parentApiItem /\ members[i].containerKey = containerKey
  ELSE 0

\* ApiModelGenerator._buildExcerptTokens: the declaration, then a blank line and
\* the declaration for each ancillary declaration
RECURSIVE AncillaryExcerptTokens(_, _)
AncillaryExcerptTokens(ancillaryDeclarations, i) ==
  IF i > Len(ancillaryDeclarations) THEN <<>>
  ELSE <<[blankLine |-> TRUE, astDeclaration |-> 0],
         [blankLine |-> FALSE, astDeclaration |-> ancillaryDeclarations[i]]>>
       \o AncillaryExcerptTokens(ancillaryDeclarations, i + 1)

BuildExcerptTokens(c, astDeclaration) ==
  <<[blankLine |-> FALSE, astDeclaration |-> astDeclaration]>>
  \o AncillaryExcerptTokens(c.declarationMetadata[astDeclaration].ancillaryDeclarations, 1)

\* lines 157-170: the declarations _processDeclaration trims
IsTrimmed_OnlyPrivate(fe, c, astDeclaration) ==
  astDeclaration \in fe.privateDeclarations

IsTrimmed(fe, c, astDeclaration) ==
  \/ astDeclaration \in fe.privateDeclarations
  \/ c.apiItemMetadataObjects[c.apiItemMetadata[astDeclaration]].effectiveReleaseTag
       \in {ReleaseTagInternal, ReleaseTagAlpha}

RECURSIVE ProcessDeclaration(_, _, _, _, _)
RECURSIVE ProcessChildDeclarations(_, _, _, _, _)
RECURSIVE ProcessResolvedDeclaration(_, _, _, _, _)
RECURSIVE ProcessApiItem(_, _, _, _, _)
RECURSIVE ProcessMembers(_, _, _, _, _)

\* ApiModelGenerator._processDeclaration and the _processApi... method it selects
ProcessDeclaration(fe, st, astDeclaration, exportedName, parentApiItem) ==
  IF Failed(st.c) THEN st
  ELSE IF astDeclaration \in fe.privateDeclarations THEN st
  ELSE ProcessResolvedDeclaration(fe,
         [st EXCEPT !.c = FetchApiItemMetadataOp(fe, st.c, astDeclaration)],
         astDeclaration, exportedName, parentApiItem)

\* the name and the container key of the API item of a declaration
ApiItemName(fe, astDeclaration, exportedName) ==
  IF DeclKind[astDeclaration] \in UnnamedKinds THEN NoName
  ELSE IF exportedName # NoName THEN exportedName
  ELSE fe.localName[DeclSymbol[astDeclaration]]

ContainerKey(c, astDeclaration, name) ==
  <<name, ApiItemKindTable[DeclKind[astDeclaration]],
    IF DeclKind[astDeclaration] \in OverloadedKinds
    THEN OverloadIndex(c, astDeclaration)
    ELSE 0>>

\* lines 166-247: the release tag trims the declaration, or its kind selects the
\* _processApi... method
ProcessResolvedDeclaration(fe, st, astDeclaration, exportedName, parentApiItem) ==
  IF Failed(st.c) THEN st
  ELSE IF st.c.apiItemMetadata[astDeclaration] = 0
  THEN [st EXCEPT !.c = Throw(st.c, "TypeError")]
  ELSE IF IsTrimmed(fe, st.c, astDeclaration) THEN st
  ELSE IF DeclKind[astDeclaration] \notin DOMAIN ApiItemKindTable THEN st
  ELSE ProcessApiItem(fe,
         [st EXCEPT !.c = IF DeclKind[astDeclaration] \in OverloadedKinds
                          THEN GetOverloadIndexOp(st.c, astDeclaration)
                          ELSE st.c],
         astDeclaration, ApiItemName(fe, astDeclaration, exportedName), parentApiItem)

\* the new API item of a _processApi... method
NewApiItem(c, astDeclaration, parentApiItem, containerKey) ==
  [parent |-> parentApiItem,
   containerKey |-> containerKey,
   kind |-> containerKey[2],
   name |-> containerKey[1],
   astDeclaration |-> astDeclaration,
   releaseTag |->
     c.apiItemMetadataObjects[c.apiItemMetadata[astDeclaration]].effectiveReleaseTag,
   excerptTokens |-> BuildExcerptTokens(c, astDeclaration)]

AddApiItem(st, astDeclaration, parentApiItem, containerKey) ==
  IF Failed(st.c) THEN st
  ELSE [st EXCEPT !.members =
          Append(@, NewApiItem(st.c, astDeclaration, parentApiItem, containerKey))]

\* a _processApi... method: the item is created unless the parent has it already
CreateApiItemIfMissing(fe, st, astDeclaration, parentApiItem, containerKey) ==
  IF TryGetMemberByKey(st.members, parentApiItem, containerKey) # 0 THEN st
  ELSE AddApiItem([st EXCEPT !.c = FetchDeclarationMetadataOp(fe, st.c, astDeclaration)],
                  astDeclaration, parentApiItem, containerKey)

ProcessMembers(fe, st, astDeclaration, parentApiItem, containerKey) ==
  IF Failed(st.c) THEN st
  ELSE IF DeclKind[astDeclaration] \in ContainerKinds
  THEN ProcessChildDeclarations(fe, st, Children(astDeclaration), 1,
         TryGetMemberByKey(st.members, parentApiItem, containerKey))
  ELSE st

ProcessApiItemWithKey(fe, st, astDeclaration, parentApiItem, containerKey) ==
  ProcessMembers(fe,
    CreateApiItemIfMissing(fe, st, astDeclaration, parentApiItem, containerKey),
    astDeclaration, parentApiItem, containerKey)

ProcessApiItem(fe, st, astDeclaration, name, parentApiItem) ==
  IF Failed(st.c) THEN st
  ELSE ProcessApiItemWithKey(fe, st, astDeclaration, parentApiItem,
                             ContainerKey(st.c, astDeclaration, name))

\* ApiModelGenerator._processChildDeclarations
ProcessChildDeclarations(fe, st, children, i, parentApiItem) ==
  IF Failed(st.c) \/ i > Len(children) THEN st
  ELSE ProcessChildDeclarations(fe,
         ProcessDeclaration(fe, st, children[i], NoName, parentApiItem),
         children, i + 1, parentApiItem)

RECURSIVE ProcessDeclarations(_, _, _, _, _, _)
ProcessDeclarations(fe, st, ds, i, exportedName, parentApiItem) ==
  IF Failed(st.c) \/ i > Len(ds) THEN st
  ELSE ProcessDeclarations(fe,
         ProcessDeclaration(fe, st, ds[i], exportedName, parentApiItem),
         ds, i + 1, exportedName, parentApiItem)

RECURSIVE ProcessAstEntity(_, _, _, _, _, _)
RECURSIVE ProcessAstModuleExports(_, _, _, _, _)
RECURSIVE ProcessAstModule(_, _, _, _, _)

\* lines 96-101: the declarations of a symbol that are not ancillary
ProcessNonAncillaryDeclarations(fe, st, astSymbol, exportedName, parentApiItem) ==
  IF Failed(st.c) THEN st
  ELSE ProcessDeclarations(fe, st, NonAncillaryDeclarations(st.c, astSymbol), 1,
                           exportedName, parentApiItem)

\* lines 136-148: the ApiNamespace of the module, created unless the parent has it
AddApiNamespaceIfMissing(st, name, parentApiItem) ==
  IF TryGetMemberByKey(st.members, parentApiItem, <<name, "Namespace", 0>>) # 0 THEN st
  ELSE [st EXCEPT !.members =
          Append(@, [parent |-> parentApiItem,
                     containerKey |-> <<name, "Namespace", 0>>,
                     kind |-> "Namespace",
                     name |-> name,
                     astDeclaration |-> 0,
                     releaseTag |-> ReleaseTagNone,
                     excerptTokens |-> <<>>])]

\* lines 150-154, from the first export on
ProcessAstModuleInto(fe, st, name, parentApiItem, depth) ==
  ProcessAstModuleExports(fe, st, 1,
    TryGetMemberByKey(st.members, parentApiItem, <<name, "Namespace", 0>>), depth + 1)

\* ApiModelGenerator._processAstModule
ProcessAstModule(fe, st, name, parentApiItem, depth) ==
  ProcessAstModuleInto(fe, AddApiNamespaceIfMissing(st, name, parentApiItem),
                       name, parentApiItem, depth)

\* ApiModelGenerator._processAstEntity and _processAstModule; depth counts the
\* _processAstModule calls on the stack: a module that exports its own namespace
\* import recurses until the stack overflows
ProcessAstEntity(fe, st, astEntity, exportedName, parentApiItem, depth) ==
  IF Failed(st.c) THEN st
  ELSE IF IsAstSymbol(astEntity)
  THEN ProcessNonAncillaryDeclarations(fe,
         [st EXCEPT !.c = FetchDeclarationMetadataFrom(fe, st.c,
                                                       AstDeclarations(astEntity), 1)],
         astEntity, exportedName, parentApiItem)
  ELSE IF depth > 0 THEN [st EXCEPT !.c = Throw(st.c, "RangeError")]
  ELSE ProcessAstModule(fe, st,
         IF exportedName # NoName THEN exportedName ELSE fe.localName[astEntity],
         parentApiItem, depth)

\* lines 150-154: each export of the module, added to the namespace
ProcessAstModuleExports(fe, st, i, apiNamespace, depth) ==
  IF Failed(st.c) \/ i > Len(fe.nsExportedLocalEntities) THEN st
  ELSE ProcessAstModuleExports(fe,
         ProcessAstEntity(fe, st, fe.nsExportedLocalEntities[i][2],
                          fe.nsExportedLocalEntities[i][1], apiNamespace, depth),
         i + 1, apiNamespace, depth)

\* line 83: whether buildApiPackage processes the entity
IsProcessed_Consumable(entity, includeForgottenExports) ==
  Consumable(entity) \/ includeForgottenExports

IsProcessed(entity, includeForgottenExports) ==
  Exported(entity) \/ includeForgottenExports

\* lines 81-86
RECURSIVE ProcessEntities(_, _, _, _)
ProcessEntities(fe, st, i, includeForgottenExports) ==
  IF Failed(st.c) \/ i > Len(st.c.entities) THEN st
  ELSE
    LET entity == st.c.collectorEntities[st.c.entities[i]]
    IN ProcessEntities(fe,
         IF IsProcessed(entity, includeForgottenExports)
         THEN ProcessAstEntity(fe, st, entity.astEntity, entity.nameForEmit, 0, 0)
         ELSE st,
         i + 1, includeForgottenExports)

BuildApiPackageOp(fe, c, includeForgottenExports) ==
  ProcessEntities(fe, [c |-> c, members |-> <<>>], 1, includeForgottenExports)

(***************************************************************************)
(* The state machine.                                                      *)
(***************************************************************************)
FrontEnd ==
  [exportedLocalEntities |-> exportedLocalEntities,
   nsExportedLocalEntities |-> nsExportedLocalEntities,
   astEntityReferences |-> astEntityReferences,
   localName |-> localName,
   globalNames |-> globalNames,
   docComment |-> docComment,
   isExternal |-> isExternal,
   privateDeclarations |-> privateDeclarations]

\* Collector.analyze(); a call that throws ends the program
Analyze ==
  /\ ~Failed(collector)
  /\ collector' = AnalyzeOp(FrontEnd, collector)
  /\ UNCHANGED <<input, apiPackage>>

\* buildApiPackage() returns the package, or throws
Built(st, includeForgottenExports) ==
  /\ collector' = st.c
  /\ apiPackage' = [built |-> TRUE,
                    includeForgottenExports |-> includeForgottenExports,
                    members |-> st.members]

\* ApiModelGenerator.buildApiPackage(), run by the extractor after analyze() returned
BuildApiPackage ==
  /\ collector.analyzed
  /\ ~Failed(collector)
  /\ apiPackage = NotBuilt
  /\ \E includeForgottenExports \in BOOLEAN :
       Built(BuildApiPackageOp(FrontEnd, collector, includeForgottenExports),
             includeForgottenExports)
  /\ UNCHANGED input

\* Collector.fetchSymbolMetadata(astSymbol)
FetchSymbolMetadata ==
  /\ collector.analyzed
  /\ ~Failed(collector)
  /\ \E astSymbol \in Symbols :
       collector' = FetchSymbolMetadataOp(FrontEnd, collector, astSymbol)
  /\ UNCHANGED <<input, apiPackage>>

\* Collector.fetchDeclarationMetadata(astDeclaration)
FetchDeclarationMetadata ==
  /\ collector.analyzed
  /\ ~Failed(collector)
  /\ \E astDeclaration \in Declarations :
       collector' = FetchDeclarationMetadataOp(FrontEnd, collector, astDeclaration)
  /\ UNCHANGED <<input, apiPackage>>

\* Collector.fetchApiItemMetadata(astDeclaration)
FetchApiItemMetadata ==
  /\ collector.analyzed
  /\ ~Failed(collector)
  /\ \E astDeclaration \in Declarations :
       collector' = FetchApiItemMetadataOp(FrontEnd, collector, astDeclaration)
  /\ UNCHANGED <<input, apiPackage>>

\* Collector.getNonAncillaryDeclarations(astSymbol)
GetNonAncillaryDeclarations ==
  /\ collector.analyzed
  /\ ~Failed(collector)
  /\ \E astSymbol \in Symbols :
       collector' = FetchDeclarationMetadataFrom(FrontEnd, collector,
                                                 AstDeclarations(astSymbol), 1)
  /\ UNCHANGED <<input, apiPackage>>

\* Collector.getOverloadIndex(astDeclaration)
GetOverloadIndex ==
  /\ collector.analyzed
  /\ ~Failed(collector)
  /\ \E astDeclaration \in Declarations :
       collector' = GetOverloadIndexOp(collector, astDeclaration)
  /\ UNCHANGED <<input, apiPackage>>

(***************************************************************************)
(* Inputs.                                                                 *)
(***************************************************************************)
SeqsUpTo(S, n) == UNION {[1..k -> S] : k \in 0..n}

IsInjective(s) == \A i, j \in 1..Len(s) : i # j => s[i] # s[j]

PublicDoc == [present |-> TRUE, modifiers |-> {ReleaseTagPublic}]

\* the references of a list of edges [source, astEntity, kind] that start at a source
RECURSIVE EdgesFrom(_, _)
EdgesFrom(edges, source) ==
  IF edges = <<>> THEN <<>>
  ELSE IF Head(edges).source = source
  THEN <<[astEntity |-> Head(edges).astEntity, kind |-> Head(edges).kind]>>
       \o EdgesFrom(Tail(edges), source)
  ELSE EdgesFrom(Tail(edges), source)

\* the exports of the namespace import's module in a list of edges
RECURSIVE NamespaceExportsOf(_, _)
NamespaceExportsOf(edges, names) ==
  IF edges = <<>> THEN <<>>
  ELSE IF Head(edges).source = 0
  THEN <<<<names[Head(edges).astEntity], Head(edges).astEntity>>>>
       \o NamespaceExportsOf(Tail(edges), names)
  ELSE NamespaceExportsOf(Tail(edges), names)

GraphLocalNames ==
  <<NameA, NameB, NameC, NameD, NameE, NameNs>>

\* the declarations that have heritage clauses
HeritageKinds == {"ClassDeclaration", "InterfaceDeclaration"}

\* the symbols a reference can name: classes, interfaces and namespaces
ReferableSymbols ==
  {DeclSymbol[d] : d \in {x \in Declarations :
                            DeclKind[x] \in HeritageKinds \cup {"ModuleDeclaration"}}}

\* a reference of a class or interface declaration, or (source 0) an export of the namespace import's module
GraphEdges ==
  [source : {d \in Declarations : DeclKind[d] \in HeritageKinds},
   astEntity : ReferableSymbols,
   kind : ReferenceKinds]
  \cup [source : {0}, astEntity : RootEntities, kind : {KindPlain}]

GraphEdgeLists ==
  {l \in SeqsUpTo(GraphEdges, MaxRefs) :
     IsInjective(NamespaceExportsOf(l, GraphLocalNames))}

InitCollector ==
  /\ collector = NewCollector
  /\ apiPackage = NotBuilt

\* the graphs: any export table and any references, under fixed names and doc comments
InitGraph ==
  /\ astSymbolTable = NamespaceTree
  /\ localName = GraphLocalNames
  /\ globalNames = {}
  /\ docComment = [d \in Declarations |-> PublicDoc]
  /\ isExternal = [s \in RootSymbols |-> FALSE]
  /\ privateDeclarations = {}
  /\ \E order \in SeqsUpTo(RootEntities, MaxExports) :
       /\ order # <<>>
       /\ IsInjective(order)
       /\ exportedLocalEntities =
            [i \in 1..Len(order) |-> <<GraphLocalNames[order[i]], order[i]>>]
  /\ \E l \in GraphEdgeLists :
       /\ astEntityReferences = [d \in Declarations |-> EdgesFrom(l, d)]
       /\ nsExportedLocalEntities = NamespaceExportsOf(l, GraphLocalNames)
  /\ InitCollector

NextGraph == Analyze \/ BuildApiPackage

SpecGraph == InitGraph /\ [][NextGraph]_vars

\* the names: any export table over a few names, two symbols that may share
\* their local name, and references that bring symbols without export into the graph
ExportNameChoices == {NameP, NameQ, NameX, NameDefault}

ExportTables ==
  {t \in SeqsUpTo(ExportNameChoices \X RootSymbols, MaxExportNames) :
     t # <<>> /\ IsInjective([i \in 1..Len(t) |-> t[i][1]])}

InitNames ==
  /\ astSymbolTable = NamespaceTree
  /\ \E n1, n2 \in {NameX, NameA} :
       localName = <<n1, n2, NameX, NameD, NameE, NameNs>>
  /\ globalNames \in SUBSET {NameX}
  /\ docComment = [d \in Declarations |-> PublicDoc]
  /\ isExternal = [s \in RootSymbols |-> FALSE]
  /\ privateDeclarations = {}
  /\ exportedLocalEntities \in ExportTables
  /\ \E targets \in SeqsUpTo({2, 3}, MaxNameRefs) :
       astEntityReferences =
         [d \in Declarations |->
            IF d = 1
            THEN [i \in 1..Len(targets) |-> [astEntity |-> targets[i], kind |-> KindPlain]]
            ELSE <<>>]
  /\ nsExportedLocalEntities = <<>>
  /\ InitCollector

SpecNames == InitNames /\ [][Analyze]_vars

\* the doc comments: any release tags on a namespace, the class in it and the
\* method of the class, with and without an export of the namespace
DocChoices ==
  {NoDoc} \cup [present : {TRUE},
                modifiers : {{}, {ReleaseTagPublic}, {ReleaseTagBeta}, {ReleaseTagInternal},
                             {ReleaseTagBeta, ReleaseTagInternal}}]

InitMeta ==
  /\ astSymbolTable = NamespaceTree
  /\ localName = GraphLocalNames
  /\ globalNames = {}
  /\ \E doc3, doc4, doc5 \in DocChoices :
       docComment = <<PublicDoc, PublicDoc, doc3, doc4, doc5>>
  /\ \E external \in BOOLEAN :
       isExternal = [s \in RootSymbols |-> s = 3 /\ external]
  /\ privateDeclarations \in SUBSET {5}
  /\ \E order \in {<<1>>, <<3>>, <<1, 3>>} :
       exportedLocalEntities =
         [i \in 1..Len(order) |-> <<GraphLocalNames[order[i]], order[i]>>]
  /\ \E refs \in {<<>>} \cup {<<[astEntity |-> 3, kind |-> k]>> : k \in ReferenceKinds} :
       astEntityReferences = [d \in Declarations |-> IF d = 1 THEN refs ELSE <<>>]
  /\ nsExportedLocalEntities = <<>>
  /\ InitCollector

Next ==
  \/ Analyze
  \/ BuildApiPackage
  \/ FetchSymbolMetadata
  \/ FetchDeclarationMetadata
  \/ FetchApiItemMetadata

Spec == InitMeta /\ [][Next]_vars

\* the declarations: a class with overloads and accessor pairs and an overloaded
\* function merged with a namespace, with and without doc comments on the setters
InitDecls ==
  /\ astSymbolTable = ClassTree
  /\ localName = GraphLocalNames
  /\ globalNames = {}
  /\ \E setterDoc \in {NoDoc, PublicDoc} :
       docComment = [d \in Declarations |->
                       IF DeclKind[d] = "SetAccessor" THEN setterDoc ELSE PublicDoc]
  /\ isExternal = [s \in RootSymbols |-> FALSE]
  /\ privateDeclarations = {}
  /\ \E order \in SeqsUpTo(RootSymbols, MaxExports) :
       /\ order # <<>>
       /\ IsInjective(order)
       /\ exportedLocalEntities =
            [i \in 1..Len(order) |-> <<GraphLocalNames[order[i]], order[i]>>]
  /\ astEntityReferences = [d \in Declarations |-> <<>>]
  /\ nsExportedLocalEntities = <<>>
  /\ InitCollector

NextDecls ==
  \/ Analyze
  \/ FetchSymbolMetadata
  \/ FetchDeclarationMetadata
  \/ FetchApiItemMetadata
  \/ GetNonAncillaryDeclarations
  \/ GetOverloadIndex

SpecDecls == InitDecls /\ [][NextDecls]_vars

\* the identifiers: a class and an interface exported under any two identifiers
\* made of "$", "A", "_" and "a"
IdentifierUnits == {36, 65, 95, 97}

Identifiers == SeqsUpTo(IdentifierUnits, MaxIdentifierLength) \ {<<>>}

InitSort ==
  /\ astSymbolTable = NamespaceTree
  /\ localName = GraphLocalNames
  /\ globalNames = {}
  /\ docComment = [d \in Declarations |-> PublicDoc]
  /\ isExternal = [s \in RootSymbols |-> FALSE]
  /\ privateDeclarations = {}
  /\ \E n1, n2 \in Identifiers :
       /\ n1 # n2
       /\ exportedLocalEntities = <<<<n1, 1>>, <<n2, 2>>>>
  /\ astEntityReferences = [d \in Declarations |-> <<>>]
  /\ nsExportedLocalEntities = <<>>
  /\ InitCollector

SpecSort == InitSort /\ [][Analyze]_vars

(***************************************************************************)
(* What the claims speak of, computed from the inputs and the Collector.   *)
(***************************************************************************)
ExportedAstEntities ==
  {exportedLocalEntities[i][2] : i \in 1..Len(exportedLocalEntities)}

NamespaceMembers ==
  {nsExportedLocalEntities[i][2] : i \in 1..Len(nsExportedLocalEntities)}

\* the entities an entity refers to: the references of its declarations and of
\* the declarations nested in them, or the exports of the module of a namespace import
ReferencedBy(astEntity) ==
  IF IsAstSymbol(astEntity)
  THEN LET refs == ReferencesOf(FrontEnd, astEntity)
       IN {refs[i].astEntity : i \in 1..Len(refs)}
  ELSE NamespaceMembers

RECURSIVE ReachableFrom(_)
ReachableFrom(seen) ==
  LET more == seen \cup UNION {ReferencedBy(e) : e \in seen}
  IN IF more = seen THEN seen ELSE ReachableFrom(more)

ReachableFromExports == ReachableFrom(ExportedAstEntities)

\* how often entities() holds a CollectorEntity of an AstEntity
Occurrences(astEntity) ==
  Cardinality({i \in 1..Len(collector.entities) :
                 collector.collectorEntities[collector.entities[i]].astEntity = astEntity})

InEntities(astEntity) == collector.entitiesByAstEntity[astEntity] # 0

EntityOf(astEntity) ==
  collector.collectorEntities[collector.entitiesByAstEntity[astEntity]]

\* the references to a root symbol from the entities of the graph: the referring
\* entity and the kind
IncomingReferences(astSymbol) ==
  UNION {{[from |-> RootAstSymbol(DeclSymbol[d]), kind |-> astEntityReferences[d][i].kind] :
            i \in {j \in 1..Len(astEntityReferences[d]) :
                     astEntityReferences[d][j].astEntity = astSymbol}} :
         d \in {x \in Declarations : InEntities(RootAstSymbol(DeclSymbol[x]))}}

ReachedThroughNamespace(astEntity) ==
  InEntities(AstNamespaceImport) /\ astEntity \in NamespaceMembers

\* C1 as stated: after analyze(), every entity reachable from the exports through
\* references appears exactly once in entities()
C1_EveryReachableEntityOnce ==
  collector.analyzed =>
    \A e \in ReachableFromExports : Occurrences(e) = 1

\* C1, amended: after analyze() has returned, every root-level entity (a symbol with
\* no parent symbol, or a namespace import) reachable from the exports through
\* references appears exactly once in entities()
C1_EveryReachableRootEntityOnce ==
  collector.analyzed =>
    \A e \in ReachableFromExports \cap RootEntities : Occurrences(e) = 1

C1_Witness ==
  /\ collector.analyzed
  /\ \E e \in (ReachableFromExports \cap RootEntities) \ ExportedAstEntities :
       Occurrences(e) = 1
  /\ \E e \in ReachableFromExports \ RootEntities : Occurrences(e) = 0

\* C2: after analyze(), an entity with no export name whose references all are
\* Inheritance references from consumable entities has consumableViaInheritance = true
C2_InheritanceReachedIsConsumable ==
  collector.analyzed =>
    \A t \in RootSymbols :
      ( /\ InEntities(t)
        /\ ~Exported(EntityOf(t))
        /\ ~ReachedThroughNamespace(t)
        /\ IncomingReferences(t) # {}
        /\ \A r \in IncomingReferences(t) :
             r.kind = KindInheritance /\ Consumable(EntityOf(r.from)) )
      => EntityOf(t).consumableViaInheritance

\* C3: after analyze(), an entity with no export name that no consumable entity
\* refers to by an Inheritance reference has consumableViaInheritance = false and
\* is not consumable
C3_PlainReachedIsNotConsumable ==
  collector.analyzed =>
    \A t \in RootEntities :
      ( /\ InEntities(t)
        /\ ~Exported(EntityOf(t))
        /\ ~\E r \in IncomingReferences(t) :
              r.kind = KindInheritance /\ Consumable(EntityOf(r.from)) )
      => /\ ~EntityOf(t).consumableViaInheritance
         /\ ~Consumable(EntityOf(t))

C3_Witness ==
  /\ collector.analyzed
  /\ \E t \in RootSymbols :
       /\ InEntities(t)
       /\ ~Exported(EntityOf(t))
       /\ \E r \in IncomingReferences(t) :
            r.kind = KindPlain /\ Consumable(EntityOf(r.from))
       /\ \E r \in IncomingReferences(t) :
            r.kind = KindInheritance /\ ~Consumable(EntityOf(r.from))
       /\ ~EntityOf(t).consumableViaInheritance

\* an exported symbol b has an Inheritance reference to the root symbol a, which
\* the export table does not hold
ExportedExtendsUnexported(b, a) ==
  /\ b \in ExportedAstEntities
  /\ a \notin ExportedAstEntities
  /\ \E i \in 1..Len(ReferencesOf(FrontEnd, b)) :
       /\ ReferencesOf(FrontEnd, b)[i].astEntity = a
       /\ ReferencesOf(FrontEnd, b)[i].kind = KindInheritance

\* C4: when an exported entity B has an Inheritance reference to a root symbol A
\* that is not exported, after analyze() entities() holds A and B, and A has
\* consumableViaInheritance = true and no export name
C4_BaseOfExportedClass ==
  collector.analyzed =>
    \A b \in RootSymbols, a \in RootSymbols :
      ExportedExtendsUnexported(b, a) =>
        /\ Occurrences(a) = 1
        /\ Occurrences(b) = 1
        /\ EntityOf(a).consumableViaInheritance
        /\ EntityOf(a).exportNames = {}

C4_Witness ==
  /\ collector.analyzed
  /\ \E b \in RootSymbols, a \in RootSymbols :
       /\ ExportedExtendsUnexported(b, a)
       /\ \E r \in IncomingReferences(a) : r.kind = KindPlain
       /\ EntityOf(a).consumableViaInheritance

\* the API items of the entry point made from a declaration of a symbol
EmittedFor(astSymbol) ==
  {i \in 1..Len(apiPackage.members) :
     /\ apiPackage.members[i].astDeclaration # 0
     /\ DeclSymbol[apiPackage.members[i].astDeclaration] = astSymbol}

\* C5: with includeForgottenExports false, buildApiPackage() emits an API item for
\* every entity that is not exported and has consumableViaInheritance = true, and
\* none for an entity that is not exported and is reached by Plain references only
C5_ForgottenBaseIsEmitted ==
  (apiPackage.built /\ ~Failed(collector) /\ ~apiPackage.includeForgottenExports) =>
    \A t \in RootSymbols :
      (InEntities(t) /\ ~Exported(EntityOf(t)) /\ ~ReachedThroughNamespace(t)) =>
        IF EntityOf(t).consumableViaInheritance
        THEN EmittedFor(t) # {}
        ELSE EmittedFor(t) = {}

EntityIds == 1..Len(collector.collectorEntities)

AllExportNames ==
  {exportedLocalEntities[i][1] : i \in 1..Len(exportedLocalEntities)}

\* the names the export table exports an entity under
ExportNamesOf(astEntity) ==
  {exportedLocalEntities[i][1] :
     i \in {j \in 1..Len(exportedLocalEntities) : exportedLocalEntities[j][2] = astEntity}}

\* C6: after _makeUniqueNames(), two distinct CollectorEntities have different
\* nameForEmit values
C6_NamesForEmitAreUnique ==
  collector.analyzed =>
    \A i, j \in EntityIds :
      i # j => collector.collectorEntities[i].nameForEmit
                 # collector.collectorEntities[j].nameForEmit

C6_Witness ==
  /\ collector.analyzed
  /\ \E i, j \in EntityIds :
       /\ i # j
       /\ IdealNameForEmit(FrontEnd, collector.collectorEntities[i])
            = IdealNameForEmit(FrontEnd, collector.collectorEntities[j])
       /\ collector.collectorEntities[i].nameForEmit
            # collector.collectorEntities[j].nameForEmit

\* C7 as stated: an entity with exactly one export name, which is not a global
\* name, has that export name as its nameForEmit
C7_SoleExportNameIsEmitted ==
  collector.analyzed =>
    \A i \in EntityIds :
      LET entity == collector.collectorEntities[i]
      IN (Cardinality(entity.exportNames) = 1
          /\ entity.exportNames \cap globalNames = {})
         => entity.nameForEmit \in entity.exportNames

\* C7, amended: an entity with exactly one export name, which is not a global name
\* and is not "default", has that export name as its nameForEmit
C7_SoleExportNameButDefaultIsEmitted ==
  collector.analyzed =>
    \A i \in EntityIds :
      LET entity == collector.collectorEntities[i]
      IN (Cardinality(entity.exportNames) = 1
          /\ entity.exportNames \cap globalNames = {}
          /\ NameDefault \notin entity.exportNames)
         => entity.nameForEmit \in entity.exportNames

C7_Witness ==
  /\ collector.analyzed
  /\ \E i, j \in EntityIds :
       /\ collector.collectorEntities[i].exportNames = {NameDefault}
       /\ collector.collectorEntities[i].nameForEmit # NameDefault
       /\ Cardinality(collector.collectorEntities[j].exportNames) = 1
       /\ localName[collector.collectorEntities[j].astEntity]
            \notin collector.collectorEntities[j].exportNames
       /\ collector.collectorEntities[j].nameForEmit
            \in collector.collectorEntities[j].exportNames

\* the local name of a symbol is taken: it is the export name of another entity,
\* a global name, "default", or the nameForEmit of another entity
LocalNameIsTaken(astSymbol) ==
  \/ localName[astSymbol] \in AllExportNames \ ExportNamesOf(astSymbol)
  \/ localName[astSymbol] \in globalNames
  \/ localName[astSymbol] = NameDefault
  \/ \E i \in EntityIds :
       /\ collector.collectorEntities[i].astEntity # astSymbol
       /\ collector.collectorEntities[i].nameForEmit = localName[astSymbol]

\* C8 as stated: a symbol exported under two names has one CollectorEntity, with
\* the two names as exportNames and the local name as nameForEmit
C8_TwiceExportedKeepsLocalName ==
  collector.analyzed =>
    \A x \in RootSymbols :
      (Cardinality(ExportNamesOf(x)) = 2 /\ localName[x] \notin ExportNamesOf(x)) =>
        /\ Occurrences(x) = 1
        /\ EntityOf(x).exportNames = ExportNamesOf(x)
        /\ EntityOf(x).nameForEmit = localName[x]

\* C8, amended: a symbol exported under two names has one CollectorEntity, with the
\* two names as exportNames, and the local name as nameForEmit unless the local
\* name is taken (by an export of another entity, a global name, "default" or an
\* entity named before it)
C8_TwiceExportedKeepsFreeLocalName ==
  collector.analyzed =>
    \A x \in RootSymbols :
      (Cardinality(ExportNamesOf(x)) = 2 /\ localName[x] \notin ExportNamesOf(x)) =>
        /\ Occurrences(x) = 1
        /\ EntityOf(x).exportNames = ExportNamesOf(x)
        /\ (~LocalNameIsTaken(x) => EntityOf(x).nameForEmit = localName[x])

C8_Witness ==
  /\ collector.analyzed
  /\ \E x \in RootSymbols :
       /\ ExportNamesOf(x) = {NameP, NameQ}
       /\ ~LocalNameIsTaken(x)
       /\ EntityOf(x).nameForEmit = localName[x]
       /\ Len(collector.entities) > 1

Reverse(seq) == [i \in 1..Len(seq) |-> seq[Len(seq) + 1 - i]]

\* the inputs that hold the items of the export table and of each reference
\* list in another order
Reorderings ==
  {[FrontEnd EXCEPT
      !.exportedLocalEntities = [i \in 1..Len(@) |-> exportedLocalEntities[order[i]]],
      !.astEntityReferences =
        [d \in Declarations |-> IF d \in reversed THEN Reverse(@[d]) ELSE @[d]]] :
     order \in {o \in [1..Len(exportedLocalEntities) -> 1..Len(exportedLocalEntities)] :
                  IsInjective(o)},
     reversed \in SUBSET {d \in Declarations : Len(astEntityReferences[d]) > 1}}

\* the nameForEmit a Collector gave to the entity of an AstEntity (NoName: none)
NameForEmitIn(c, astEntity) ==
  IF c.entitiesByAstEntity[astEntity] = 0 THEN NoName
  ELSE c.collectorEntities[c.entitiesByAstEntity[astEntity]].nameForEmit

\* C9 as stated: a run on the same items in another order gives every entity the
\* same nameForEmit
C9_NamesIgnoreInsertionOrder ==
  collector.analyzed =>
    \A fe \in Reorderings :
      \A e \in AstEntities :
        NameForEmitIn(AnalyzeOp(fe, NewCollector), e) = NameForEmitIn(collector, e)

\* the entity was given a generated name, and which: 1 for the ideal name, n for
\* the ideal name with the suffix _n
HasGeneratedName(entity) ==
  ~AcceptsIdealName(FrontEnd, entity, IdealNameForEmit(FrontEnd, entity))

GeneratedSuffix(entity) ==
  IF entity.nameForEmit = IdealNameForEmit(FrontEnd, entity) THEN 1
  ELSE CHOOSE n \in 2..(Len(collector.collectorEntities) + Cardinality(globalNames)
                          + Len(exportedLocalEntities) + 2) :
         entity.nameForEmit = SuffixedName(IdealNameForEmit(FrontEnd, entity), n)

\* C9, amended: names are assigned in the order in which the entities were added
\* to the graph, before the sort: of two entities that get generated names from
\* the same ideal name, the one added first gets the smaller suffix
C9_NamesFollowInsertionOrder ==
  collector.analyzed =>
    \A i, j \in EntityIds :
      LET first == collector.collectorEntities[i]
          second == collector.collectorEntities[j]
      IN (i < j /\ HasGeneratedName(first) /\ HasGeneratedName(second)
          /\ IdealNameForEmit(FrontEnd, first) = IdealNameForEmit(FrontEnd, second))
         => GeneratedSuffix(first) < GeneratedSuffix(second)

C9_Witness ==
  /\ collector.analyzed
  /\ \E i, j \in EntityIds :
       LET first == collector.collectorEntities[i]
           second == collector.collectorEntities[j]
       IN /\ i < j
          /\ HasGeneratedName(first) /\ HasGeneratedName(second)
          /\ IdealNameForEmit(FrontEnd, first) = IdealNameForEmit(FrontEnd, second)
          /\ StringLess(GetSortKeyIgnoringUnderscore(localName[second.astEntity]),
                        GetSortKeyIgnoringUnderscore(localName[first.astEntity]))
          /\ GeneratedSuffix(first) < GeneratedSuffix(second)

\* the merged declarations: any release tags on the class, the namespace merged with
\* it and the method of the class, which may be private; the merged symbol is
\* exported, or is the base class or the type of a member of the exported class
MergedDocChoices ==
  DocChoices \cup {[present |-> TRUE, modifiers |-> {ReleaseTagAlpha}]}

InitMerged ==
  /\ astSymbolTable = MergedTree
  /\ localName = <<NameA, NameB, NameC, NameNs>>
  /\ globalNames = {}
  /\ \E doc1, doc2, doc3 \in MergedDocChoices :
       docComment = <<doc1, doc2, doc3, PublicDoc>>
  /\ \E external \in BOOLEAN :
       isExternal = [s \in RootSymbols |-> s = 1 /\ external]
  /\ privateDeclarations \in SUBSET {3}
  /\ \E order \in {<<1>>, <<3>>, <<3, 1>>} :
       exportedLocalEntities =
         [i \in 1..Len(order) |-> <<localName[order[i]], order[i]>>]
  /\ \E refs \in {<<>>} \cup {<<[astEntity |-> 1, kind |-> k]>> : k \in ReferenceKinds} :
       astEntityReferences = [d \in Declarations |-> IF d = 4 THEN refs ELSE <<>>]
  /\ nsExportedLocalEntities = <<>>
  /\ InitCollector

NextMerged ==
  \/ Analyze
  \/ BuildApiPackage
  \/ FetchSymbolMetadata
  \/ FetchDeclarationMetadata
  \/ FetchApiItemMetadata

SpecMerged == InitMerged /\ [][NextMerged]_vars

\* the accessors: an exported class with one property that is declared by up to
\* MaxAccessors getters and setters in any order, with and without doc comments
AccessorKindLists ==
  UNION {[1..n -> {"GetAccessor", "SetAccessor"}] : n \in 1..MaxAccessors}

AccessorTree(kinds) ==
  AstSymbolTableOf(
    <<1>> \o [i \in 1..Len(kinds) |-> 2],
    <<0>> \o [i \in 1..Len(kinds) |-> 1],
    <<"ClassDeclaration">> \o kinds)

InitAccessors ==
  /\ \E kinds \in AccessorKindLists :
       /\ astSymbolTable = AccessorTree(kinds)
       /\ \E docs \in [1..Len(kinds) -> {NoDoc, PublicDoc}] :
            docComment = <<PublicDoc>> \o docs
  /\ localName = <<NameA, NameB, NameNs>>
  /\ globalNames = {}
  /\ isExternal = [s \in {1} |-> FALSE]
  /\ privateDeclarations = {}
  /\ exportedLocalEntities = <<<<NameA, 1>>>>
  /\ astEntityReferences = [d \in 1..Len(docComment) |-> <<>>]
  /\ nsExportedLocalEntities = <<>>
  /\ InitCollector

NextAccessors ==
  \/ Analyze
  \/ BuildApiPackage
  \/ FetchSymbolMetadata
  \/ FetchDeclarationMetadata
  \/ FetchApiItemMetadata
  \/ GetNonAncillaryDeclarations

SpecAccessors == InitAccessors /\ [][NextAccessors]_vars

\* the ApiItemMetadata of a declaration that has one
ApiItemMetadataOf(astDeclaration) ==
  collector.apiItemMetadataObjects[collector.apiItemMetadata[astDeclaration]]

IsResolved(astDeclaration) ==
  /\ collector.apiItemMetadata[astDeclaration] # 0
  /\ ~collector.declarationMetadata[astDeclaration].isAncillary

\* C10: the effective release tag of a resolved declaration that is not ancillary is
\* its declared tag unless that is None, and then the effective tag of its parent
\* declaration; so a declaration without tag in a Public parent is Public
C10_EffectiveReleaseTag ==
  \A d \in Declarations :
    IsResolved(d) =>
      /\ ApiItemMetadataOf(d).declaredReleaseTag # ReleaseTagNone
           => ApiItemMetadataOf(d).effectiveReleaseTag
                = ApiItemMetadataOf(d).declaredReleaseTag
      /\ (ApiItemMetadataOf(d).declaredReleaseTag = ReleaseTagNone /\ DeclParent[d] # 0)
           => /\ IsResolved(DeclParent[d])
              /\ ApiItemMetadataOf(d).effectiveReleaseTag
                   = ApiItemMetadataOf(DeclParent[d]).effectiveReleaseTag
      /\ ( /\ ~docComment[d].present \/ docComment[d].modifiers \cap ReleaseTags = {}
           /\ DeclParent[d] # 0
           /\ ApiItemMetadataOf(DeclParent[d]).effectiveReleaseTag = ReleaseTagPublic )
           => ApiItemMetadataOf(d).effectiveReleaseTag = ReleaseTagPublic

C10_Witness ==
  /\ IsResolved(5)
  /\ IsResolved(4)
  /\ ~docComment[5].present
  /\ ApiItemMetadataOf(5).declaredReleaseTag = ReleaseTagNone
  /\ ApiItemMetadataOf(4).declaredReleaseTag = ReleaseTagBeta
  /\ ApiItemMetadataOf(3).effectiveReleaseTag = ReleaseTagInternal
  /\ ApiItemMetadataOf(5).effectiveReleaseTag = ReleaseTagBeta

\* the property symbols declared by one getter and one setter
AccessorPairs ==
  {s \in Symbols :
     /\ Len(AstDeclarations(s)) = 2
     /\ {DeclKind[AstDeclarations(s)[i]] : i \in 1..2} = {"GetAccessor", "SetAccessor"}}

GetterOf(astSymbol) ==
  CHOOSE d \in Declarations : DeclSymbol[d] = astSymbol /\ DeclKind[d] = "GetAccessor"

SetterOf(astSymbol) ==
  CHOOSE d \in Declarations : DeclSymbol[d] = astSymbol /\ DeclKind[d] = "SetAccessor"

\* what getNonAncillaryDeclarations(astSymbol) returns when called now
NonAncillaryDeclarationsNow(astSymbol) ==
  NonAncillaryDeclarations(
    FetchDeclarationMetadataFrom(FrontEnd, collector, AstDeclarations(astSymbol), 1),
    astSymbol)

\* the ApiItemMetadata object fetchApiItemMetadata(second) returns when it is called
\* now, after fetchApiItemMetadata(first) (0: undefined)
ApiItemMetadataAfter(first, second) ==
  FetchApiItemMetadataOp(FrontEnd,
    FetchApiItemMetadataOp(FrontEnd, collector, first), second).apiItemMetadata[second]

\* C11: for a property with one getter and one setter, in either declaration order,
\* getNonAncillaryDeclarations returns only the getter, and fetchApiItemMetadata of
\* the setter returns the same object as fetchApiItemMetadata of the getter
C11_SetterSharesGetterMetadata ==
  (collector.analyzed /\ ~Failed(collector)) =>
    \A s \in AccessorPairs :
      /\ NonAncillaryDeclarationsNow(s) = <<GetterOf(s)>>
      /\ ApiItemMetadataAfter(SetterOf(s), GetterOf(s)) # 0
      /\ ApiItemMetadataAfter(GetterOf(s), SetterOf(s))
           = ApiItemMetadataAfter(SetterOf(s), GetterOf(s))
      /\ ApiItemMetadataAfter(SetterOf(s), SetterOf(s))
           = ApiItemMetadataAfter(SetterOf(s), GetterOf(s))

C11_Witness ==
  /\ collector.analyzed /\ ~Failed(collector)
  /\ \E s \in AccessorPairs :
       /\ SetterOf(s) < GetterOf(s)
       /\ collector.declarationMetadata[SetterOf(s)].isAncillary
       /\ collector.declarationMetadata[GetterOf(s)].ancillaryDeclarations
            = <<SetterOf(s)>>
       /\ collector.apiItemMetadata[GetterOf(s)] # 0
       /\ collector.apiItemMetadata[SetterOf(s)] = collector.apiItemMetadata[GetterOf(s)]
  /\ \E s \in AccessorPairs :
       /\ GetterOf(s) < SetterOf(s)
       /\ ~collector.declarationMetadata[GetterOf(s)].present

\* the declarations of the symbol of a declaration that precede it and have its kind
PrecedingOverloads(astDeclaration) ==
  {d \in Declarations :
     /\ DeclSymbol[d] = DeclSymbol[astDeclaration]
     /\ DeclKind[d] = DeclKind[astDeclaration]
     /\ d < astDeclaration}

\* what getOverloadIndex(astDeclaration) returns when called now
OverloadIndexNow(astDeclaration) ==
  OverloadIndex(GetOverloadIndexOp(collector, astDeclaration), astDeclaration)

\* C12: getOverloadIndex(d) is 1 plus the number of declarations of the symbol of d
\* that precede d and have the kind of d, whatever was queried before; so two
\* declarations of one symbol and one kind never get the same index
C12_OverloadIndex ==
  (collector.analyzed /\ ~Failed(collector)) =>
    /\ \A d \in Declarations :
         /\ ~Failed(GetOverloadIndexOp(collector, d))
         /\ OverloadIndexNow(d) = 1 + Cardinality(PrecedingOverloads(d))
    /\ \A d, e \in Declarations :
         (d # e /\ DeclSymbol[d] = DeclSymbol[e] /\ DeclKind[d] = DeclKind[e])
           => OverloadIndexNow(d) # OverloadIndexNow(e)

C12_Witness ==
  /\ collector.analyzed /\ ~Failed(collector)
  /\ \E d, e \in Declarations :
       /\ DeclSymbol[d] = DeclSymbol[e]
       /\ DeclKind[d] # DeclKind[e]
       /\ d < e
       /\ PrecedingOverloads(e) # {}
       /\ collector.cachedOverloadIndexesByDeclaration[e] = 2
       /\ collector.cachedOverloadIndexesByDeclaration[d] = 0
  /\ \E d, e \in Declarations :
       /\ DeclSymbol[d] = DeclSymbol[e]
       /\ DeclKind[d] # DeclKind[e]
       /\ collector.cachedOverloadIndexesByDeclaration[d] = 1
       /\ collector.cachedOverloadIndexesByDeclaration[e] = 1

\* an identifier without its leading underscore
WithoutUnderscore(identifier) ==
  IF identifier[1] = 95 THEN Tail(identifier) ELSE identifier

\* the order by case-insensitive text with the leading underscore ignored, then by
\* case-sensitive text, then by the presence of the underscore
IdentifierLess(a, b) ==
  \/ StringLess(ToLowerCase(WithoutUnderscore(a)), ToLowerCase(WithoutUnderscore(b)))
  \/ /\ ToLowerCase(WithoutUnderscore(a)) = ToLowerCase(WithoutUnderscore(b))
     /\ \/ StringLess(WithoutUnderscore(a), WithoutUnderscore(b))
        \/ /\ WithoutUnderscore(a) = WithoutUnderscore(b)
           /\ a[1] # 95
           /\ b[1] = 95

\* the sort key of the entity at a place of entities()
SortKeyAt(k) == GetSortKey(FrontEnd, collector.collectorEntities[collector.entities[k]])

\* C13: the sort key tells any two different identifiers apart and orders them by
\* case-insensitive text with a leading underscore ignored, then by case-sensitive
\* text, then by the underscore; after analyze(), entities() ascends in the key
C13_SortKeyOrdersIdentifiers ==
  collector.analyzed =>
    /\ \A i, j \in EntityIds :
         LET a == collector.collectorEntities[i].nameForEmit
             b == collector.collectorEntities[j].nameForEmit
         IN /\ a # b => GetSortKeyIgnoringUnderscore(a) # GetSortKeyIgnoringUnderscore(b)
            /\ StringLess(GetSortKeyIgnoringUnderscore(a), GetSortKeyIgnoringUnderscore(b))
                 <=> IdentifierLess(a, b)
    /\ \A k \in 1..(Len(collector.entities) - 1) :
         ~StringLess(SortKeyAt(k + 1), SortKeyAt(k))

\* C14: in every state there is at most one CollectorEntity per AstEntity: no two
\* places of the entities list hold nodes of the same entity, and the identity map
\* holds exactly the nodes of the list, each under the entity it wraps
C14_OneEntityPerAstEntity ==
  /\ \A i, j \in 1..Len(collector.entities) :
       i # j => /\ collector.entities[i] # collector.entities[j]
                /\ collector.collectorEntities[collector.entities[i]].astEntity
                     # collector.collectorEntities[collector.entities[j]].astEntity
  /\ {collector.entitiesByAstEntity[e] : e \in AstEntities} \ {0}
       = {collector.entities[k] : k \in 1..Len(collector.entities)}
  /\ \A e \in AstEntities :
       InEntities(e) => EntityOf(e).astEntity = e

C14_Witness ==
  /\ collector.analyzed
  /\ \E t \in RootSymbols :
       /\ t \in ExportedAstEntities
       /\ ReachedThroughNamespace(t)
       /\ \E r \in IncomingReferences(t) : r.kind = KindPlain
       /\ \E r \in IncomingReferences(t) : r.kind = KindInheritance
       /\ Occurrences(t) = 1
       /\ EntityOf(t).astNamespaceImports = {AstNamespaceImport}

\* the Collector after a call of analyze() made now
AnalyzedAgain == AnalyzeOp(FrontEnd, collector)

\* C15: a call of analyze() after a call of analyze() throws, and leaves the entity
\* list and the entities, with their export names, consumableViaInheritance flags
\* and nameForEmit values, as they were
C15_SecondAnalyzeThrows ==
  collector.astEntryPoint =>
    /\ Failed(AnalyzedAgain)
    /\ AnalyzedAgain.entities = collector.entities
    /\ AnalyzedAgain.collectorEntities = collector.collectorEntities
    /\ AnalyzedAgain.entitiesByAstEntity = collector.entitiesByAstEntity

C15_Witness ==
  /\ collector.analyzed
  /\ collector.error = "Error"
  /\ Len(collector.entities) > 2
  /\ \E i \in EntityIds : HasGeneratedName(collector.collectorEntities[i])
  /\ \E i \in EntityIds : Cardinality(collector.collectorEntities[i].exportNames) = 2

\* the Collector at the call of _makeUniqueNames(): after the traversal of line 272
BeforeMakeUniqueNames ==
  ExpandExports(FrontEnd,
    RegisterExports(FrontEnd, [NewCollector EXCEPT !.astEntryPoint = TRUE], 1), 1)

\* an export name is recorded on two different CollectorEntities
HasDuplicateExportName(c) ==
  \E i, j \in 1..Len(c.collectorEntities) :
    /\ i # j
    /\ c.collectorEntities[i].exportNames \cap c.collectorEntities[j].exportNames # {}

\* the Collectors at the call of _makeUniqueNames() with an export name of one
\* entity recorded on another entity too
WithDuplicateExportName(c) ==
  {[c EXCEPT !.collectorEntities[j] = AddExportName(@, n)] :
     <<j, n>> \in {<<k, m>> \in (1..Len(c.collectorEntities)) \X AllExportNames :
                     m \notin c.collectorEntities[k].exportNames}}

NoNameForEmit(c) ==
  \A i \in 1..Len(c.collectorEntities) : c.collectorEntities[i].nameForEmit = NoName

\* C16: _makeUniqueNames() throws an InternalError if and only if an export name is
\* recorded on two different CollectorEntities, and when it throws no entity has a
\* nameForEmit
C16_DuplicateExportNameThrows ==
  collector.astEntryPoint =>
    /\ \A c \in {BeforeMakeUniqueNames} \cup WithDuplicateExportName(BeforeMakeUniqueNames) :
         /\ Failed(MakeUniqueNames(FrontEnd, c)) <=> HasDuplicateExportName(c)
         /\ Failed(MakeUniqueNames(FrontEnd, c))
              => /\ MakeUniqueNames(FrontEnd, c).error = "InternalError"
                 /\ NoNameForEmit(MakeUniqueNames(FrontEnd, c))
    /\ collector.error = "InternalError" <=> HasDuplicateExportName(collector)

C16_Witness ==
  /\ collector.analyzed
  /\ ~HasDuplicateExportName(collector)
  /\ ~NoNameForEmit(collector)
  /\ Cardinality(WithDuplicateExportName(BeforeMakeUniqueNames)) > 2
  /\ \A c \in WithDuplicateExportName(BeforeMakeUniqueNames) :
       /\ HasDuplicateExportName(c)
       /\ MakeUniqueNames(FrontEnd, c).error = "InternalError"

\* analyze() threw from the lookup of lines 458-462
TraversalAborted ==
  /\ collector.astEntryPoint
  /\ ~collector.analyzed
  /\ collector.error = "Error"

\* C17: the traversal never throws from the lookup of the CollectorEntity of the
\* entity whose references it is expanding
C17_TraversalNeverAborts == ~TraversalAborted

\* the same, when no declaration of a nested symbol has a reference
C17_AbortsOnlyInNestedSymbol ==
  TraversalAborted =>
    \E d \in Declarations :
      /\ ~IsRootLevel(DeclSymbol[d])
      /\ astEntityReferences[d] # <<>>
      /\ DeclSymbol[d] \in collector.alreadySeenAstEntities
      /\ collector.entitiesByAstEntity[DeclSymbol[d]] = 0

\* the entities a reference or a namespace export leads to from an entity
ReferencedFrom(astEntity) ==
  IF astEntity = AstNamespaceImport
  THEN {nsExportedLocalEntities[i][2] : i \in 1..Len(nsExportedLocalEntities)}
  ELSE {ReferencesOf(FrontEnd, astEntity)[i].astEntity :
          i \in 1..Len(ReferencesOf(FrontEnd, astEntity))}

\* C18: analyze() ends on every graph, and the traversal expands the references of
\* an entity at most once: the expanded entities are all different, they are the
\* entities of the visited set, and a nested symbol that has references is expanded
\* only by the call that throws
C18_ExpandedAtMostOnce ==
  /\ ~collector.astEntryPoint => AnalyzeOp(FrontEnd, collector).astEntryPoint
  /\ IsInjective(collector.expanded)
  /\ Len(collector.expanded) <= Cardinality(AstEntities)
  /\ {collector.expanded[i] : i \in 1..Len(collector.expanded)}
       = collector.alreadySeenAstEntities
  /\ \A i \in 1..Len(collector.expanded) :
       (/\ IsAstSymbol(collector.expanded[i])
        /\ ~IsRootLevel(collector.expanded[i])
        /\ ReferencesOf(FrontEnd, collector.expanded[i]) # <<>>)
         => (TraversalAborted /\ i = Len(collector.expanded))

\* a graph with a cycle through two symbols and a namespace import that exports itself
C18_Witness ==
  /\ collector.analyzed
  /\ AstNamespaceImport \in ReferencedFrom(AstNamespaceImport)
  /\ \E s, t \in Symbols :
       /\ s # t
       /\ t \in ReferencedFrom(s)
       /\ s \in ReferencedFrom(t)
       /\ {s, t, AstNamespaceImport}
            \subseteq {collector.expanded[i] : i \in 1..Len(collector.expanded)}

\* the n-th name of the sequence ideal, ideal_2, ideal_3, ...
Candidate(idealNameForEmit, n) ==
  IF n = 1 THEN idealNameForEmit ELSE SuffixedName(idealNameForEmit, n)

\* the entities in the order in which _makeUniqueNames() walks them: the order in
\* which they were added, which is the order of collectorEntities
NamingOrder == [k \in 1..Len(collector.collectorEntities) |-> k]

NamingOrderIsOrderAdded ==
  collector.analyzed => BeforeMakeUniqueNames.entities = NamingOrder

\* the names the k-th entity cannot be given: "default", the global names, the
\* export names of all entities and the names of the entities before it
NamesTakenBefore(k) ==
  {NameDefault} \cup globalNames
    \cup UNION {collector.collectorEntities[i].exportNames :
                 i \in 1..Len(collector.collectorEntities)}
    \cup {collector.collectorEntities[NamingOrder[j]].nameForEmit : j \in 1..(k - 1)}

ContendFor(y, x, name) ==
  /\ y # x
  /\ name \in collector.collectorEntities[y].exportNames
  /\ ~HasGlobalName(FrontEnd, name)
  /\ name # NameDefault
  /\ name \notin collector.collectorEntities[x].exportNames
  /\ IdealNameForEmit(FrontEnd, collector.collectorEntities[x]) = name

\* x is named name_2, name_3, ...
HasSuffixedName(x, name) ==
  \E n \in 2..(Len(collector.collectorEntities) + 1) :
    collector.collectorEntities[x].nameForEmit = SuffixedName(name, n)

\* C20: when Y is exported under N and X, not exported under N, has the ideal name
\* N, Y is named N and X is named N with a suffix
C20_ExporterKeepsName ==
  collector.analyzed =>
    \A y, x \in 1..Len(collector.collectorEntities) :
      \A name \in AllExportNames :
        ContendFor(y, x, name) =>
          /\ collector.collectorEntities[y].nameForEmit = name
          /\ HasSuffixedName(x, name)

\* C20, amended: the same when N is also the ideal name of Y; and in every case X is
\* named N with a suffix and no entity that is not exported under N is named N
C20_ExportNameNotGivenAway ==
  collector.analyzed =>
    /\ \A y, x \in 1..Len(collector.collectorEntities) :
         \A name \in AllExportNames :
           ContendFor(y, x, name) =>
             /\ IdealNameForEmit(FrontEnd, collector.collectorEntities[y]) = name
                  => collector.collectorEntities[y].nameForEmit = name
             /\ HasSuffixedName(x, name)
    /\ \A z \in 1..Len(collector.collectorEntities) :
         collector.collectorEntities[z].nameForEmit \in AllExportNames
           => collector.collectorEntities[z].nameForEmit
                \in collector.collectorEntities[z].exportNames

\* X is named before Y in one state and after Y in another: here X is first
C20_Witness ==
  /\ collector.analyzed
  /\ \E y, x \in 1..Len(collector.collectorEntities) :
       /\ x < y
       /\ ContendFor(y, x, NameX)
       /\ collector.collectorEntities[y].nameForEmit = NameX
       /\ collector.collectorEntities[x].nameForEmit = NameX2

C20_WitnessExporterFirst ==
  /\ collector.analyzed
  /\ \E y, x \in 1..Len(collector.collectorEntities) :
       /\ y < x
       /\ ContendFor(y, x, NameX)
       /\ collector.collectorEntities[y].nameForEmit = NameX
       /\ collector.collectorEntities[x].nameForEmit = NameX2

\* the release tags of the doc comment of a declaration
DocReleaseTags(astDeclaration) ==
  IF docComment[astDeclaration].present
  THEN docComment[astDeclaration].modifiers \cap ReleaseTags
  ELSE {}

\* the extra-release-tag diagnostic was reported for the declaration
HasExtraReleaseTagMessage(astDeclaration) ==
  \E i \in 1..Len(collector.messages) :
    collector.messages[i] = [messageId |-> "ExtraReleaseTag", target |-> astDeclaration]

\* C21: the declared release tag of a resolved declaration is None when it has no doc
\* comment or the comment has more than one release tag, and the tag of the comment
\* when it has exactly one
C21_DeclaredTagNoneWhenExtra ==
  \A d \in Declarations :
    IsResolved(d) =>
      ApiItemMetadataOf(d).declaredReleaseTag
        = IF Cardinality(DocReleaseTags(d)) = 1
          THEN CHOOSE t \in DocReleaseTags(d) : TRUE
          ELSE ReleaseTagNone

\* C21, amended: with more than one release tag, the declared tag is the first of
\* Public, Beta, Alpha, Internal that the comment has; the diagnostic is reported
\* exactly for the declarations with more than one tag of symbols that are not external
C21_DeclaredTagFirstInPrecedence ==
  \A d \in Declarations :
    IsResolved(d) =>
      /\ ApiItemMetadataOf(d).declaredReleaseTag
           = IF DocReleaseTags(d) = {} THEN ReleaseTagNone
             ELSE CHOOSE t \in DocReleaseTags(d) : \A u \in DocReleaseTags(d) : u <= t
      /\ HasExtraReleaseTagMessage(d)
           <=> (Cardinality(DocReleaseTags(d)) > 1 /\ ~IsExternal(FrontEnd, DeclSymbol[d]))

C21_Witness ==
  /\ IsResolved(4)
  /\ IsResolved(5)
  /\ DocReleaseTags(4) = {ReleaseTagBeta, ReleaseTagInternal}
  /\ ApiItemMetadataOf(4).declaredReleaseTag = ReleaseTagBeta
  /\ HasExtraReleaseTagMessage(4)
  /\ DocReleaseTags(5) = {ReleaseTagInternal}
  /\ ApiItemMetadataOf(5).declaredReleaseTag = ReleaseTagInternal
  /\ ~docComment[3].present
  /\ ApiItemMetadataOf(3).declaredReleaseTag = ReleaseTagNone

\* the missing-release-tag diagnostic was reported for the symbol
HasMissingReleaseTagMessage(astSymbol) ==
  \E i \in 1..Len(collector.messages) :
    collector.messages[i] = [messageId |-> "MissingReleaseTag", target |-> astSymbol]

\* the declared tags of the declarations of a symbol
DeclaredReleaseTags(astSymbol) ==
  {ApiItemMetadataOf(AstDeclarations(astSymbol)[i]).declaredReleaseTag :
     i \in 1..Len(AstDeclarations(astSymbol))}

\* a resolved symbol that is not external, whose root has a consumable entity
IsResolvedConsumable(astSymbol) ==
  /\ collector.symbolMetadata[astSymbol].present
  /\ ~IsExternal(FrontEnd, astSymbol)
  /\ RootIsConsumable(collector, astSymbol)

\* C22: a symbol that is not external, of a consumable entity, with a declaration
\* that declares a release tag and a declaration that declares none gets no
\* missing-release-tag diagnostic, and its maxEffectiveReleaseTag is the declared tag
C22_MissingTagOnlyForUntaggedSymbol ==
  \A s \in RootSymbols :
    (/\ IsResolvedConsumable(s)
     /\ ReleaseTagNone \in DeclaredReleaseTags(s)
     /\ DeclaredReleaseTags(s) # {ReleaseTagNone})
      => /\ ~HasMissingReleaseTagMessage(s)
         /\ collector.symbolMetadata[s].maxEffectiveReleaseTag
              \in DeclaredReleaseTags(s) \ {ReleaseTagNone}

\* what the code does: every root declaration without tag of such a symbol is
\* reported and becomes Public, so that the symbol's maximum is Public
C22_EachUntaggedDeclarationIsHealed ==
  \A s \in RootSymbols :
    (IsResolvedConsumable(s) /\ ReleaseTagNone \in DeclaredReleaseTags(s))
      => /\ HasMissingReleaseTagMessage(s)
         /\ collector.symbolMetadata[s].maxEffectiveReleaseTag = ReleaseTagPublic

\* the place of a symbol in the order in which the SymbolMetadata were set (0: not set)
SolvedAt(astSymbol) ==
  IF \E k \in 1..Len(collector.solvedSymbols) : collector.solvedSymbols[k] = astSymbol
  THEN CHOOSE k \in 1..Len(collector.solvedSymbols) : collector.solvedSymbols[k] = astSymbol
  ELSE 0

\* the ApiItemMetadata objects of the declarations of a symbol, by their place in
\* the order of creation
ApiItemMetadataIds(astSymbol) ==
  {collector.apiItemMetadata[AstDeclarations(astSymbol)[i]] :
     i \in 1..Len(AstDeclarations(astSymbol))}

\* C23: the ApiItemMetadata of the parent of a declaration is attached before that of
\* the declaration, the SymbolMetadata of the parent of a symbol is set before that
\* of the symbol, and the declarations of a symbol are resolved together, in the order
\* of its declarations
C23_ParentFirst ==
  ~Failed(collector) =>
    /\ \A d \in Declarations :
         (collector.apiItemMetadata[d] # 0 /\ DeclParent[d] # 0)
           => /\ collector.apiItemMetadata[DeclParent[d]] # 0
              /\ collector.apiItemMetadata[DeclParent[d]] < collector.apiItemMetadata[d]
    /\ \A s \in Symbols :
         /\ collector.symbolMetadata[s].present <=> SolvedAt(s) # 0
         /\ (SolvedAt(s) # 0 /\ ParentAstSymbol(s) # 0)
              => /\ SolvedAt(ParentAstSymbol(s)) # 0
                 /\ SolvedAt(ParentAstSymbol(s)) < SolvedAt(s)
    /\ \A s \in Symbols :
         /\ collector.symbolMetadata[s].present <=> 0 \notin ApiItemMetadataIds(s)
         /\ collector.symbolMetadata[s].present \/ ApiItemMetadataIds(s) = {0}
         /\ \A i, j \in 1..Len(AstDeclarations(s)) :
              i < j => collector.apiItemMetadata[AstDeclarations(s)[i]]
                         <= collector.apiItemMetadata[AstDeclarations(s)[j]]
         /\ \A t \in Symbols \ {s} :
              \A x, z \in ApiItemMetadataIds(s) : \A y \in ApiItemMetadataIds(t) :
                ~(x < y /\ y < z)

\* the function of the namespace was fetched before the merged symbol it is in
C23_Witness ==
  /\ collector.analyzed
  /\ ~Failed(collector)
  /\ collector.solvedSymbols = <<3, 1, 2>>
  /\ collector.apiItemMetadata = <<2, 3, 4, 1>>
  /\ ~collector.declarationMetadata[3].isAncillary

\* a fetch of metadata that is there returns it and changes nothing
FetchesReturnWhatIsThere ==
  /\ \A s \in Symbols :
       collector.symbolMetadata[s].present
         => FetchSymbolMetadataOp(FrontEnd, collector, s) = collector
  /\ \A d \in Declarations :
       /\ collector.declarationMetadata[d].present
            => FetchDeclarationMetadataOp(FrontEnd, collector, d) = collector
       /\ collector.apiItemMetadata[d] # 0
            => FetchApiItemMetadataOp(FrontEnd, collector, d) = collector

\* a step keeps the metadata that are there, and every ApiItemMetadata object it
\* makes is the object of a declaration: none was made and then replaced
MetadataKept ==
  /\ \A s \in Symbols :
       collector.symbolMetadata[s].present
         => collector'.symbolMetadata[s] = collector.symbolMetadata[s]
  /\ \A d \in Declarations :
       /\ collector.declarationMetadata[d].present
            => collector'.declarationMetadata[d] = collector.declarationMetadata[d]
       /\ collector.apiItemMetadata[d] # 0
            => collector'.apiItemMetadata[d] = collector.apiItemMetadata[d]
  /\ \A k \in 1..Len(collector.apiItemMetadataObjects) :
       /\ k <= Len(collector'.apiItemMetadataObjects)
       /\ collector'.apiItemMetadataObjects[k] = collector.apiItemMetadataObjects[k]
  /\ \A k \in 1..Len(collector'.apiItemMetadataObjects) :
       \E d \in Declarations : collector'.apiItemMetadata[d] = k
  /\ IsInjective(collector'.solvedSymbols)

\* C24: the DeclarationMetadata and ApiItemMetadata of a declaration and the
\* SymbolMetadata of a symbol are assigned once and never replaced, and a fetch of
\* metadata that is there returns the same object
C24_MetadataAssignedOnce ==
  [][MetadataKept /\ FetchesReturnWhatIsThere]_vars

\* everything is resolved, the class last
C24_Witness ==
  /\ ~Failed(collector)
  /\ Len(collector.solvedSymbols) = Cardinality(Symbols)
  /\ collector.solvedSymbols[1] = 5
  /\ \A d \in Declarations : collector.apiItemMetadata[d] # 0
  /\ Len(collector.apiItemMetadataObjects) = 8
  /\ FetchesReturnWhatIsThere

\* the getters and the setters of a symbol
GettersOf(astSymbol) ==
  {d \in Declarations : DeclSymbol[d] = astSymbol /\ DeclKind[d] = "GetAccessor"}

SettersOf(astSymbol) ==
  {d \in Declarations : DeclSymbol[d] = astSymbol /\ DeclKind[d] = "SetAccessor"}

\* the declarations of a symbol have their DeclarationMetadata
HasDeclarationMetadata(astSymbol) ==
  \E d \in Declarations :
    DeclSymbol[d] = astSymbol /\ collector.declarationMetadata[d].present

\* C25: when the declarations of a symbol are resolved, every getter of the symbol
\* has every setter of the symbol in its ancillaryDeclarations, and no InternalError
\* is thrown, however many getters and setters the symbol has
C25_EveryGetterLinkedToEverySetter ==
  /\ collector.error # "InternalError"
  /\ \A s \in Symbols :
       HasDeclarationMetadata(s) =>
         \A g \in GettersOf(s) : \A t \in SettersOf(s) :
           \E i \in 1..Len(collector.declarationMetadata[g].ancillaryDeclarations) :
             collector.declarationMetadata[g].ancillaryDeclarations[i] = t

\* what the code does: the InternalError is thrown exactly for a symbol that has a
\* setter and more than one getter
C25_ThrowsForSecondGetter ==
  /\ collector.error = "InternalError"
       <=> \E s \in Symbols :
             /\ HasDeclarationMetadata(s)
             /\ SettersOf(s) # {}
             /\ Cardinality(GettersOf(s)) > 1
  /\ \A s \in Symbols :
       (HasDeclarationMetadata(s) /\ ~Failed(collector)) =>
         \A g \in GettersOf(s) : \A t \in SettersOf(s) :
           \E i \in 1..Len(collector.declarationMetadata[g].ancillaryDeclarations) :
             collector.declarationMetadata[g].ancillaryDeclarations[i] = t

\* C26: no declaration is ancillary and has ancillary declarations; a declaration in
\* the ancillaryDeclarations of another is ancillary, is a declaration of the same
\* symbol, and is in that list once
C26_AncillaryIsExclusive ==
  \A d \in Declarations :
    /\ ~(/\ collector.declarationMetadata[d].isAncillary
         /\ collector.declarationMetadata[d].ancillaryDeclarations # <<>>)
    /\ IsInjective(collector.declarationMetadata[d].ancillaryDeclarations)
    /\ \A i \in 1..Len(collector.declarationMetadata[d].ancillaryDeclarations) :
         /\ collector.declarationMetadata[
              collector.declarationMetadata[d].ancillaryDeclarations[i]].isAncillary
         /\ DeclSymbol[collector.declarationMetadata[d].ancillaryDeclarations[i]]
              = DeclSymbol[d]

\* a getter with two setters, and a getter whose setter was linked before the
\* second getter made the call throw
C26_Witness ==
  \E d \in Declarations :
    /\ Len(collector.declarationMetadata[d].ancillaryDeclarations) = 2
    /\ ~Failed(collector)

C26_WitnessAfterThrow ==
  \E d \in Declarations :
    /\ Len(collector.declarationMetadata[d].ancillaryDeclarations) = 1
    /\ collector.error = "InternalError"

\* the ApiProperty items that buildApiPackage() added for the accessors of a symbol
ApiPropertiesOf(astSymbol) ==
  {i \in 1..Len(apiPackage.members) :
     /\ apiPackage.members[i].kind = "Property"
     /\ apiPackage.members[i].astDeclaration # 0
     /\ DeclSymbol[apiPackage.members[i].astDeclaration] = astSymbol}

\* the excerpt tokens of a getter, a blank line and the tokens of a setter
PairExcerptTokens(getter, setter) ==
  <<[blankLine |-> FALSE, astDeclaration |-> getter],
    [blankLine |-> TRUE, astDeclaration |-> 0],
    [blankLine |-> FALSE, astDeclaration |-> setter]>>

\* C27: for a property declared by a getter and a setter in an emitted class,
\* buildApiPackage() adds one ApiProperty, whose excerpt tokens are those of the
\* getter, a blank line and those of the setter, in either order of declaration
C27_PairExcerptGetterThenSetter ==
  (apiPackage.built /\ ~Failed(collector)) =>
    \A s \in AccessorPairs :
      /\ Cardinality(ApiPropertiesOf(s)) = 1
      /\ \A i \in ApiPropertiesOf(s) :
           apiPackage.members[i].excerptTokens = PairExcerptTokens(GetterOf(s), SetterOf(s))

\* what the code does: one ApiProperty in either order, made from the declaration
\* that comes first; a setter that comes first gives its own tokens only
C27_PropertyOfFirstDeclaration ==
  (apiPackage.built /\ ~Failed(collector)) =>
    \A s \in AccessorPairs :
      /\ Cardinality(ApiPropertiesOf(s)) = 1
      /\ \A i \in ApiPropertiesOf(s) :
           /\ apiPackage.members[i].astDeclaration = AstDeclarations(s)[1]
           /\ apiPackage.members[i].excerptTokens
                = IF GetterOf(s) < SetterOf(s)
                  THEN PairExcerptTokens(GetterOf(s), SetterOf(s))
                  ELSE <<[blankLine |-> FALSE, astDeclaration |-> SetterOf(s)]>>

\* a declaration and the declarations it is in
RECURSIVE SelfAndAncestors(_)
SelfAndAncestors(astDeclaration) ==
  IF astDeclaration = 0 THEN {}
  ELSE {astDeclaration} \cup SelfAndAncestors(DeclParent[astDeclaration])

\* the declarations buildApiPackage() added an item for
EmittedDeclarations ==
  {apiPackage.members[i].astDeclaration : i \in 1..Len(apiPackage.members)} \ {0}

\* C28: buildApiPackage() adds no item for a declaration that is private or whose
\* effective release tag is Internal or Alpha, nor for a declaration inside one
C28_TrimmedWithDescendants ==
  apiPackage.built =>
    \A d \in EmittedDeclarations :
      \A a \in SelfAndAncestors(d) :
        /\ a \notin privateDeclarations
        /\ IsResolved(a)
        /\ ApiItemMetadataOf(a).effectiveReleaseTag
             \notin {ReleaseTagInternal, ReleaseTagAlpha}

\* the class is Alpha or Internal and its method declares Public or Beta: the
\* namespace merged with the class is emitted, the method is not
C28_Witness ==
  /\ apiPackage.built
  /\ ~Failed(collector)
  /\ IsResolved(1)
  /\ ApiItemMetadataOf(1).effectiveReleaseTag = ReleaseTagAlpha
  /\ docComment[3].modifiers = {ReleaseTagBeta}
  /\ 3 \notin privateDeclarations
  /\ EmittedDeclarations = {2, 4}

C28_WitnessPrivate ==
  /\ apiPackage.built
  /\ ~Failed(collector)
  /\ 3 \in privateDeclarations
  /\ IsResolved(3)
  /\ ApiItemMetadataOf(3).effectiveReleaseTag = ReleaseTagPublic
  /\ EmittedDeclarations = {1, 2, 4}

\* the effective release tag recorded for a declaration of a resolved symbol
EffectiveReleaseTagOf(astDeclaration) ==
  collector.apiItemMetadataObjects[collector.apiItemMetadata[astDeclaration]]
    .effectiveReleaseTag

\* C29: once a symbol is resolved each of its declarations has an ApiItemMetadata,
\* and its effective release tag is None only if the symbol is not external and its
\* root symbol has no consumable entity
C29_NoneOnlyForUnconsumedLocalCode ==
  \A astSymbol \in Symbols :
    collector.symbolMetadata[astSymbol].present =>
      \A i \in 1..Len(AstDeclarations(astSymbol)) :
        /\ collector.apiItemMetadata[AstDeclarations(astSymbol)[i]] # 0
        /\ (IsExternal(FrontEnd, astSymbol) \/ RootIsConsumable(collector, astSymbol))
             => EffectiveReleaseTagOf(AstDeclarations(astSymbol)[i]) # ReleaseTagNone

\* the merged symbol is consumable through inheritance only and declares no tag on
\* its class; the class and the method in it are Public
C29_Witness ==
  /\ collector.symbolMetadata[1].present
  /\ collector.symbolMetadata[2].present
  /\ ~IsExternal(FrontEnd, 1)
  /\ RootIsConsumable(collector, 1)
  /\ Len(exportedLocalEntities) = 1
  /\ exportedLocalEntities[1][2] = 3
  /\ ~docComment[1].present
  /\ ~docComment[3].present
  /\ EffectiveReleaseTagOf(1) = ReleaseTagPublic
  /\ EffectiveReleaseTagOf(3) = ReleaseTagPublic

\* the merged symbol is the type of a member only: its untagged declarations keep None
C29_WitnessNone ==
  /\ collector.symbolMetadata[1].present
  /\ collector.symbolMetadata[2].present
  /\ ~RootIsConsumable(collector, 1)
  /\ EffectiveReleaseTagOf(1) = ReleaseTagNone
  /\ EffectiveReleaseTagOf(3) = ReleaseTagNone

\* an external symbol without tag is Public, whether its entity is consumable or not
C29_WitnessExternal ==
  /\ collector.symbolMetadata[1].present
  /\ IsExternal(FrontEnd, 1)
  /\ ~RootIsConsumable(collector, 1)
  /\ ~docComment[1].present
  /\ EffectiveReleaseTagOf(1) = ReleaseTagPublic

\* the AstEntities whose entity has consumableViaInheritance = true in a Collector
ConsumableViaInheritanceIn(c) ==
  {e \in AstEntities :
     /\ c.entitiesByAstEntity[e] # 0
     /\ c.collectorEntities[c.entitiesByAstEntity[e]].consumableViaInheritance}

\* C30: analyze() on the same export table and the same references in another order
\* ends with consumableViaInheritance = true on the same entities
C30_FlagsIgnoreVisitOrder ==
  (collector.analyzed /\ ~Failed(collector)) =>
    \A fe \in Reorderings :
      ~Failed(AnalyzeOp(fe, NewCollector)) =>
        ConsumableViaInheritanceIn(AnalyzeOp(fe, NewCollector))
          = ConsumableViaInheritanceIn(collector)

====
